---------------------------- MODULE Spec2Model ----------------------------
(***************************************************************************)
(* The delivery engine of the New Relic telemetry SDK (src/src/client.rs): *)
(* the backoff sequence computed by the builder, the classification of a   *)
(* response by process_response, and the send / retry / split loop of      *)
(* Client::send, including its recursion on the two halves of a split      *)
(* batch.                                                                  *)
(*                                                                         *)
(* Durations are whole seconds.  Option<T> is a sequence of length at most *)
(* one: << >> is None and <<x>> is Some(x).  A header value is a sequence  *)
(* of one-character strings.                                               *)
(***************************************************************************)
EXTENDS Integers, Sequences, FiniteSets, TLC

(***************************************************************************)
(* Bounds of the model.                                                    *)
(***************************************************************************)
\* the largest retries_max a builder is configured with
MaxRetries == 4
\* the largest backoff_factor (seconds) a builder is configured with
MaxFactor == 2
\* the largest number of records of a submitted batch
MaxRecords == 2
\* the deepest nesting of send calls (1 = no split is followed)
MaxDepth == 2
\* retries_max of the client that talks to the server answering every code
AllRetries == 2
\* the deepest nesting of send calls with the server answering every code
AllDepth == 2
\* the largest number of records of the batch sent to the test endpoint
SplitRecords == 4
\* the largest number of replies the test gives its endpoint
MaxReplies == 4
\* the largest number of batches submitted to a blocking client
MaxSubmits == 3
\* the largest blocking_queue_max
MaxQueue == 2
\* the number of batches submitted to a blocking client whose endpoint
\* replies 413
SplitSubmits == 2
\* the largest retries_max whose backoff sequence is computed at the width
\* of the machine integers
WideRetries == 34

None == << >>
Some(x) == <<x>>

(***************************************************************************)
(* ClientBuilder::get_backoff_sequence                                     *)
(***************************************************************************)
RECURSIVE pow(_, _)
\* u32::pow; within the bounds the result stays far below 2^32
pow(base, exp) == IF exp = 0 THEN 1 ELSE base * pow(base, exp - 1)

\* mutant: the delay grows by the factor at each retry, without doubling
backoff_element_linear(factor, num_retry) ==
    factor * num_retry

\* the closure mapped over 0..retries_max
backoff_element(factor, num_retry) ==
    IF num_retry = 0 THEN 0 ELSE factor * pow(2, num_retry - 1)

\* mutant: the range is 0..=retries_max
get_backoff_sequence_inclusive(factor, retries) ==
    [i \in 1..(retries + 1) |-> backoff_element(factor, i - 1)]

\* mutant: the delay doubles from the first element on
get_backoff_sequence_shifted(factor, retries) ==
    [i \in 1..retries |-> factor * pow(2, i - 1)]

\* element i (1-based here) is the closure applied to num_retry = i - 1
get_backoff_sequence(factor, retries) ==
    [i \in 1..retries |-> backoff_element(factor, i - 1)]

(***************************************************************************)
(* get_backoff_sequence at the width of its integers.  2_u32.pow is a u32  *)
(* and the seconds of a Duration are a u64; these are kept as little-endian*)
(* sequences of bytes, 4 for a u32 and 8 for a u64.  A multiplication of   *)
(* u32 that overflows panics in a build with overflow checks and wraps in  *)
(* a build without; Duration * u32 panics on overflow in every build.      *)
(***************************************************************************)
BYTE == 256

U32_BYTES == 4

U64_BYTES == 8

RECURSIVE to_le_bytes(_, _)
\* the n bytes of x, least significant first
to_le_bytes(x, n) ==
    IF n = 0 THEN << >> ELSE <<x % BYTE>> \o to_le_bytes(x \div BYTE, n - 1)

RECURSIVE column(_, _, _, _)
\* the sum of a[j] * b[k + 1 - j] over j in 1..i
column(a, b, k, i) ==
    IF i = 0 THEN 0
    ELSE (IF (k + 1 - i) \in DOMAIN b THEN a[i] * b[k + 1 - i] ELSE 0)
            + column(a, b, k, i - 1)

RECURSIVE carry(_, _, _, _)
\* the bytes k.. of the full product of a and b, given the carry into k
carry(a, b, k, c) ==
    IF k > Len(a) + Len(b) THEN << >>
    ELSE LET t == column(a, b, k, Len(a)) + c
         IN  <<t % BYTE>> \o carry(a, b, k + 1, t \div BYTE)

\* overflowing_mul of two integers of the same width: the wrapped product
\* and whether the full product did not fit
overflowing_mul(a, b) ==
    LET full == carry(a, b, 1, 0)
    IN  [value    |-> SubSeq(full, 1, Len(a)),
         overflow |-> \E i \in (Len(a) + 1)..Len(full) : full[i] # 0]

\* a * b on u32: None for the panic of a build with overflow checks
mul_u32(a, b, overflow_checks) ==
    LET product == overflowing_mul(a, b)
    IN  IF product.overflow /\ overflow_checks THEN None
        ELSE Some(product.value)

RECURSIVE pow_loop(_, _, _, _)
\* the loop of u32::pow: square the base, multiply the accumulator by it
\* at every odd exponent, and multiply once more for the last bit
pow_loop(base, acc, exp, overflow_checks) ==
    IF exp > 1
    THEN LET acc1 == IF exp % 2 = 1
                     THEN mul_u32(acc, base, overflow_checks) ELSE Some(acc)
             base1 == mul_u32(base, base, overflow_checks)
         IN  IF acc1 = None \/ base1 = None THEN None
             ELSE pow_loop(base1[1], acc1[1], exp \div 2, overflow_checks)
    ELSE mul_u32(acc, base, overflow_checks)

\* u32::pow
u32_pow(self, exp, overflow_checks) ==
    IF exp = 0 THEN Some(to_le_bytes(1, U32_BYTES))
    ELSE pow_loop(self, to_le_bytes(1, U32_BYTES), exp, overflow_checks)

\* Duration * u32 of a Duration of whole seconds: secs.checked_mul(rhs as
\* u64), None for the panic of its expect
duration_mul(secs, rhs) ==
    LET wide == rhs \o [i \in 1..(U64_BYTES - Len(rhs)) |-> 0]
        product == overflowing_mul(secs, wide)
    IN  IF product.overflow THEN None ELSE Some(product.value)

\* the closure mapped over 0..retries_max: the seconds of the Duration, or
\* None for a panic
wide_backoff_element(factor, num_retry, overflow_checks) ==
    IF num_retry = 0 THEN Some(to_le_bytes(0, U64_BYTES))
    ELSE LET p == u32_pow(to_le_bytes(2, U32_BYTES), num_retry - 1,
                          overflow_checks)
         IN  IF p = None THEN None
             ELSE duration_mul(to_le_bytes(factor, U64_BYTES), p[1])

\* get_backoff_sequence: the sequence, or None if an element panicked
wide_backoff_sequence(factor, retries, overflow_checks) ==
    LET elements == [i \in 1..retries |->
                        wide_backoff_element(factor, i - 1, overflow_checks)]
    IN  IF \E i \in 1..retries : elements[i] = None THEN None
        ELSE Some([i \in 1..retries |-> elements[i][1]])

RECURSIVE le_from(_, _, _)
\* a <= b, comparing from byte i down
le_from(a, b, i) ==
    IF i = 0 THEN TRUE
    ELSE IF a[i] # b[i] THEN a[i] < b[i]
    ELSE le_from(a, b, i - 1)

\* a <= b for two integers of the same width
le(a, b) == le_from(a, b, Len(a))

(***************************************************************************)
(* Client::extract_retry_after: HeaderValue::to_str, then str::parse::<u64>*)
(***************************************************************************)
Digits == <<"0", "1", "2", "3", "4", "5", "6", "7", "8", "9">>

IsDigit(c) == \E d \in 1..10 : Digits[d] = c

DigitVal(c) == (CHOOSE d \in 1..10 : Digits[d] = c) - 1

\* characters HeaderValue::to_str accepts (visible ASCII); the string
\* "0x80" stands for an opaque byte
VisibleAscii ==
    {Digits[d] : d \in 1..10} \cup {"+", "-", ".", " ", "s", "e", "v", "n"}

\* u64::MAX as decimal digits
U64MaxDigits ==
    <<1, 8, 4, 4, 6, 7, 4, 4, 0, 7, 3, 7, 0, 9, 5, 5, 1, 6, 1, 5>>

RECURSIVE StripZeros(_)
StripZeros(ds) ==
    IF Len(ds) > 1 /\ Head(ds) = "0" THEN StripZeros(Tail(ds)) ELSE ds

RECURSIVE DigitsGreater(_, _)
\* ds > ms for two digit sequences of the same length
DigitsGreater(ds, ms) ==
    IF ds = << >> THEN FALSE
    ELSE IF DigitVal(Head(ds)) # Head(ms) THEN DigitVal(Head(ds)) > Head(ms)
    ELSE DigitsGreater(Tail(ds), Tail(ms))

\* the checked multiply-and-add of the parser fails: the value exceeds
\* u64::MAX
PosOverflow(ds) ==
    LET s == StripZeros(ds)
    IN  \/ Len(s) > Len(U64MaxDigits)
        \/ Len(s) = Len(U64MaxDigits) /\ DigitsGreater(s, U64MaxDigits)

RECURSIVE Accumulate(_, _)
\* result = result * 10 + digit, over the digits from left to right
Accumulate(result, ds) ==
    IF ds = << >> THEN result
    ELSE Accumulate(result * 10 + DigitVal(Head(ds)), Tail(ds))

\* str::parse::<u64>: Err on the empty string, a lone sign, a character
\* that is no digit (a leading '-' included) and on overflow; a leading
\* '+' is accepted.  Result<u64> is an Option here: None is Err.
parse_u64(str) ==
    IF str = << >> THEN None
    ELSE LET ds == IF Head(str) = "+" THEN Tail(str) ELSE str
         IN  IF ds = << >> THEN None
             ELSE IF \E i \in 1..Len(ds) : ~IsDigit(ds[i]) THEN None
             ELSE IF PosOverflow(ds) THEN None
             ELSE Some(Accumulate(0, ds))

\* HeaderValue::to_str: Err unless every byte is visible ASCII
to_str(value) ==
    IF \A i \in 1..Len(value) : value[i] \in VisibleAscii
    THEN Some(value) ELSE None

\* headers is the Option of the retry-after header value; the result is
\* the Option of the Duration (None is Err)
extract_retry_after(headers) ==
    IF headers # None
    THEN LET s == to_str(headers[1])
         IN  IF s = None THEN None ELSE parse_u64(s[1])
    ELSE None


(***************************************************************************)
(* Endpoint::uri: the URI is formatted from the scheme, the host, the port *)
(* and the path, and validated by the parser of hyper::Uri.  Strings are   *)
(* sequences of characters.                                                *)
(***************************************************************************)
TRACE_API_PATH == <<"t", "r", "a", "c", "e", "/", "v", "1">>

RECURSIVE fmt_u16(_)
\* format!("{}", p) of a port
fmt_u16(p) ==
    IF p < 10 THEN <<Digits[p + 1]>>
    ELSE fmt_u16(p \div 10) \o <<Digits[(p % 10) + 1]>>

\* format!("{}://{}{}/{}", scheme, host, port_str, path)
format_uri(ep, tls) ==
    (IF tls THEN <<"h", "t", "t", "p", "s">> ELSE <<"h", "t", "t", "p">>)
        \o <<":", "/", "/">> \o ep.host
        \o (IF ep.port # None
            THEN <<":">> \o fmt_u16(ep.port[1]) ELSE << >>)
        \o <<"/">> \o ep.path

\* the characters the parser accepts in an authority, among those that
\* the hosts of this model are made of; a space is none of them
UriChars ==
    {Digits[d] : d \in 1..10}
        \cup {"a", "c", "e", "h", "i", "l", "m", "n", "o", "p", "r", "s",
              "t", "v", "w", "-", ".", ":"}

\* the length of the scheme and its "://", 0 if the string has none
scheme_end(str) ==
    IF Len(str) >= 8 /\ SubSeq(str, 1, 8)
                          = <<"h", "t", "t", "p", "s", ":", "/", "/">>
    THEN 8
    ELSE IF Len(str) >= 7 /\ SubSeq(str, 1, 7)
                               = <<"h", "t", "t", "p", ":", "/", "/">>
    THEN 7
    ELSE 0

\* the authority ends before the first '/', '?' or '#'
authority_end(str) ==
    LET ends == {i \in DOMAIN str : str[i] \in {"/", "?", "#"}}
    IN  IF ends = {} THEN Len(str)
        ELSE (CHOOSE i \in ends : \A j \in ends : i <= j) - 1

\* uri.parse::<Uri>() of a string with a scheme: the authority must be made
\* of valid characters, hold at most one ':' and not be empty
parse_uri(str) ==
    LET rest == SubSeq(str, scheme_end(str) + 1, Len(str))
        authority == SubSeq(rest, 1, authority_end(rest))
        colon_cnt == Cardinality({i \in DOMAIN authority :
                                    authority[i] = ":"})
    IN  IF scheme_end(str) = 0 THEN None
        ELSE IF \E i \in DOMAIN authority : authority[i] \notin UriChars
        THEN None
        ELSE IF colon_cnt > 1 THEN None
        ELSE IF authority = << >> THEN None
        ELSE Some([authority |-> authority,
                   path |-> SubSeq(rest, Len(authority) + 1, Len(rest))])

\* Endpoint::uri
uri(ep, tls) == parse_uri(format_uri(ep, tls))

(***************************************************************************)
(* SendableState and Client::process_response                              *)
(***************************************************************************)
Done == [kind |-> "Done", delay |-> None]
Retry(delay) == [kind |-> "Retry", delay |-> delay]
Split == [kind |-> "Split", delay |-> None]

\* the status codes a response can carry
StatusCodes == 100..599

\* the arm 400 | 401 | 403 | 404 | 405 | 409 | 410 | 411
DropCodes == {400, 401, 403, 404, 405, 409, 410, 411}

\* mutant: the 2xx arm stops at 298
process_response_short_2xx(status, headers) ==
    IF status \in 200..298 \/ status \in DropCodes THEN Done
    ELSE IF status = 413 THEN Split
    ELSE IF status = 429
         THEN IF extract_retry_after(headers) # None
              THEN Retry(extract_retry_after(headers)) ELSE Done
    ELSE Retry(None)

\* mutant: 411 is missing from the list of dropped codes
process_response_no_411(status, headers) ==
    IF status \in 200..299 \/ status \in (DropCodes \ {411}) THEN Done
    ELSE IF status = 413 THEN Split
    ELSE IF status = 429
         THEN IF extract_retry_after(headers) # None
              THEN Retry(extract_retry_after(headers)) ELSE Done
    ELSE Retry(None)

\* mutant: a Retry-After header is honoured on every status but 2xx
process_response_header_first(status, headers) ==
    IF status \in 200..299 \/ status \in DropCodes THEN Done
    ELSE IF extract_retry_after(headers) # None
         THEN Retry(extract_retry_after(headers))
    ELSE IF status = 413 THEN Split
    ELSE IF status = 429 THEN Done
    ELSE Retry(None)

\* mutant: 429 without a usable Retry-After falls back to the backoff
process_response_429_backoff(status, headers) ==
    IF status \in 200..299 \/ status \in DropCodes THEN Done
    ELSE IF status = 413 THEN Split
    ELSE IF status = 429 THEN Retry(extract_retry_after(headers))
    ELSE Retry(None)

\* mutant: a 503 honours its Retry-After header
process_response_503_retry_after(status, headers) ==
    IF status \in 200..299 \/ status \in DropCodes THEN Done
    ELSE IF status = 413 THEN Split
    ELSE IF status \in {429, 503}
         THEN IF extract_retry_after(headers) # None
              THEN Retry(extract_retry_after(headers))
              ELSE IF status = 429 THEN Done ELSE Retry(None)
    ELSE Retry(None)

\* the match on status.as_u16(); the arms that only log fall through to
\* the final SendableState::Done
process_response(status, headers) ==
    IF status \in 200..299 THEN Done
    ELSE IF status \in DropCodes THEN Done
    ELSE IF status = 413 THEN Split
    ELSE IF status = 429
         THEN LET r == extract_retry_after(headers)
              IN  IF r # None THEN Retry(Some(r[1])) ELSE Done
    ELSE Retry(None)

\* the record that process_response logs for a response: its level and
\* what it says is done with the batch
log_process_response(status, headers) ==
    IF status \in 200..299
    THEN [level |-> "debug", says |-> "successfully sent"]
    ELSE IF status \in DropCodes
    THEN [level |-> "error", says |-> "dropping"]
    ELSE IF status = 413
    THEN [level |-> "info", says |-> "splitting"]
    ELSE IF status = 429
         THEN IF extract_retry_after(headers) # None
              THEN [level |-> "info", says |-> "retrying"]
              ELSE [level |-> "error", says |-> "dropping"]
    ELSE [level |-> "debug", says |-> "retry"]

\* the record that Client::send itself logs when it returns, if any: the
\* arms of a request that cannot be created or sent log an error; the
\* return of Done and the end of the loop log nothing
log_send(reason) ==
    IF reason \in {"request_error", "transport_error"}
    THEN Some([level |-> "error", says |-> "dropping"])
    ELSE None

(***************************************************************************)
(* The batch (MetricBatch: uuid, metrics, attributes) and Sendable::split. *)
(* Uuid::new_v4 draws a random identifier; it is modelled as one that no   *)
(* batch and no request has carried so far.                                *)
(***************************************************************************)
new_v4(used) ==
    IF used = {} THEN 1
    ELSE (CHOOSE u \in used : \A v \in used : v <= u) + 1

\* MetricBatch::new and add_metric, set_attribute
NewBatch(n, attributes) ==
    [uuid |-> new_v4({}), metrics |-> [i \in 1..n |-> i],
     attributes |-> attributes]

\* mutant: the original keeps the larger half
split_ceil(batch, used) ==
    LET new_batch_size == (Len(batch.metrics) + 1) \div 2
        uuid == new_v4(used)
    IN  [retained |-> [uuid |-> uuid,
                       metrics |-> SubSeq(batch.metrics, 1, new_batch_size),
                       attributes |-> batch.attributes],
         returned |-> [uuid |-> new_v4(used \cup {uuid}),
                       metrics |-> SubSeq(batch.metrics, new_batch_size + 1,
                                          Len(batch.metrics)),
                       attributes |-> batch.attributes]]

\* mutant: the metrics are copied into the returned batch, not drained
split_copy(batch, used) ==
    LET new_batch_size == Len(batch.metrics) \div 2
        uuid == new_v4(used)
    IN  [retained |-> [uuid |-> uuid,
                       metrics |-> batch.metrics,
                       attributes |-> batch.attributes],
         returned |-> [uuid |-> new_v4(used \cup {uuid}),
                       metrics |-> SubSeq(batch.metrics, new_batch_size + 1,
                                          Len(batch.metrics)),
                       attributes |-> batch.attributes]]

\* mutant: the original keeps its uuid
split_keep_uuid(batch, used) ==
    LET new_batch_size == Len(batch.metrics) \div 2
    IN  [retained |-> [uuid |-> batch.uuid,
                       metrics |-> SubSeq(batch.metrics, 1, new_batch_size),
                       attributes |-> batch.attributes],
         returned |-> [uuid |-> new_v4(used),
                       metrics |-> SubSeq(batch.metrics, new_batch_size + 1,
                                          Len(batch.metrics)),
                       attributes |-> batch.attributes]]

\* the metrics from len / 2 on are drained into the returned batch, which
\* gets a clone of the attributes; both batches get a new uuid
split(batch, used) ==
    LET new_batch_size == Len(batch.metrics) \div 2
        uuid == new_v4(used)
    IN  [retained |-> [uuid |-> uuid,
                       metrics |-> SubSeq(batch.metrics, 1, new_batch_size),
                       attributes |-> batch.attributes],
         returned |-> [uuid |-> new_v4(used \cup {uuid}),
                       metrics |-> SubSeq(batch.metrics, new_batch_size + 1,
                                          Len(batch.metrics)),
                       attributes |-> batch.attributes]]

(***************************************************************************)
(* The state.  The configuration of the builder and of the client built    *)
(* from it; what has become of the builder (client); the stack of active   *)
(* calls of Client::send (a split calls send again on each half); the      *)
(* endpoint of the integration tests, i.e. the payloads it has recorded    *)
(* and the status codes the test makes it reply with, one to each request; *)
(* the blocking client, i.e. the batches in its channel, the number of     *)
(* batches submitted, its worker thread and the deliveries the worker is   *)
(* blocked on; and what the last step made observable: the response it     *)
(* handled and the send call that returned in it.                          *)
(***************************************************************************)
VARIABLES retries_max, backoff_factor, backoff_sequence, blocking_queue_max,
          endpoint_traces, use_tls, client, stack, chan_payloads,
          chan_responses, channel, submitted, worker, deliveries, response,
          returned

config == <<retries_max, backoff_factor, backoff_sequence,
            blocking_queue_max, endpoint_traces, use_tls>>

endpoint == <<chan_payloads, chan_responses>>

blocking == <<channel, submitted, worker, deliveries>>

vars == <<config, client, stack, endpoint, blocking, response, returned>>

\* the values of the Retry-After header a response carries: absent, or one
\* of these strings
HeaderValues ==
    { <<"0">>, <<"7">>, <<"1", "2">>, <<"+", "3">>, <<"-", "1">>,
      <<"s", "e", "v", "e", "n">>, << >>, <<"0x80">>,
      <<"1", "8", "4", "4", "6", "7", "4", "4", "0", "7", "3", "7", "0",
        "9", "5", "5", "1", "6", "1", "6">> }

Headers == {None} \cup {Some(v) : v \in HeaderValues}

\* one status code of each row of the decision table, and the Retry-After
\* headers of the end-to-end scenarios
ServerCodes == {202, 400, 413, 429, 500}

ServerHeaders == {None, Some(<<"0">>), Some(<<"7">>)}

\* the common attributes of a submitted batch: none, or one
Attributes == {<< >>, <<"host">>}

\* the defaults of ClientBuilder::new
DEFAULT_BACKOFF_FACTOR == 5

DEFAULT_RETRIES_MAX == 8

DEFAULT_BLOCKING_QUEUE_MAX == 100

DEFAULT_HOST ==
    <<"t", "r", "a", "c", "e", "-", "a", "p", "i", ".", "n", "e", "w", "r",
      "e", "l", "i", "c", ".", "c", "o", "m">>

\* the trace endpoint of a host and an optional port
Endpoint(host, port) ==
    [host |-> host, port |-> port, path |-> TRACE_API_PATH]

\* the worker thread of the blocking client: its position in the loop, its
\* vector batches; and, as history, the number of batches its last drain
\* took from the channel, those of them it dropped, and, while it empties
\* the channel, the batches that were queued when rx.recv() returned
NoWorker == [pc |-> "none", batches |-> << >>, drained |-> 0,
             dropped |-> << >>, queued |-> << >>]

\* a client built by ClientBuilder::build from a builder that has the
\* defaults but for the host of the trace endpoint
NonBlockingClient ==
    /\ blocking_queue_max = DEFAULT_BLOCKING_QUEUE_MAX
    /\ endpoint_traces = Endpoint(<<"h", "o", "s", "t">>, None)
    /\ use_tls = TRUE
    /\ client = "client"
    /\ channel = << >>
    /\ submitted = 0
    /\ worker = NoWorker
    /\ deliveries = << >>

NoResponse == [status |-> 0, headers |-> None, state |-> Done, attempt |-> 0]

NoReturn == [reason |-> "none", attempts |-> 0]

\* the locals of one call of send: the batch, the position of the iterator
\* over backoff_sequence, the loop variable duration, the duration handed
\* to thread::sleep while it sleeps, the second half while the first is
\* delivered; and, as history, the requests sent and whether a Retry-After
\* has replaced a wait
NewFrame(batch) ==
    [batch |-> batch, pc |-> "start", pos |-> 0, duration |-> 0,
     attempts |-> 0, sleep |-> 0, batch2 |-> None, overridden |-> FALSE]

Top == stack[Len(stack)]

SetTop(frame) == [stack EXCEPT ![Len(stack)] = frame]

RECURSIVE Return(_)
\* mutant: the caller returns after its first half, batch2 is never sent
Return_first_only(stk) ==
    LET rest == SubSeq(stk, 1, Len(stk) - 1)
    IN  IF rest = << >> THEN << >> ELSE Return(rest)

\* the top call returns: its caller, suspended in a split, goes on with
\* self.send(batch2, endpoint) or returns in turn
Return(stk) ==
    LET rest == SubSeq(stk, 1, Len(stk) - 1)
    IN  IF rest = << >> THEN << >>
        ELSE LET caller == rest[Len(rest)]
             IN  IF caller.pc = "split_first"
                 THEN Append([rest EXCEPT ![Len(rest)].pc = "split_second",
                                          ![Len(rest)].batch2 = None],
                             NewFrame(caller.batch2[1]))
                 ELSE Return(rest)

Returns(reason) ==
    [reason |-> reason, attempts |-> Top.attempts]

(***************************************************************************)
(* Client::send                                                            *)
(***************************************************************************)
\* mutant: the explicit delay is ignored
next_duration_ignored(state, duration) == duration

\* the duration the loop sleeps for: the explicit one of Retry(Some(_)),
\* else the element of the backoff sequence of this iteration
next_duration(state, duration) ==
    IF state.delay # None THEN state.delay[1] ELSE duration

\* mutant: an explicit delay rewinds the iterator, the attempt is not
\* counted against the budget
on_retry_rewind(frame, state) ==
    [frame EXCEPT !.pc = "sleeping",
                  !.sleep = next_duration(state, frame.duration),
                  !.pos = IF state.delay # None THEN @ - 1 ELSE @,
                  !.overridden = @ \/ state.delay # None]

\* mutant: no sleep after the response to the last attempt
on_retry_skip_last(frame, state) ==
    IF frame.pos = Len(backoff_sequence)
    THEN [frame EXCEPT !.pc = "start",
                       !.overridden = @ \/ state.delay # None]
    ELSE [frame EXCEPT !.pc = "sleeping",
                       !.sleep = next_duration(state, frame.duration),
                       !.overridden = @ \/ state.delay # None]

\* the arms Retry(Some(duration)) and _ of the match, and thread::sleep
on_retry(frame, state) ==
    [frame EXCEPT !.pc = "sleeping",
                  !.sleep = next_duration(state, frame.duration),
                  !.overridden = @ \/ state.delay # None]

\* the arm Done: return
on_done(stk) == Return(stk)

\* the uuids of the batches of the calls of a stack
StackUuids(stk) ==
    {stk[i].batch.uuid : i \in DOMAIN stk}
        \cup {stk[i].batch2[1].uuid :
                 i \in {j \in DOMAIN stk : stk[j].batch2 # None}}

\* the uuids of the batches of the active calls, of the requests sent, of
\* the batches submitted to the blocking client and of its deliveries
UsedUuids(stk, payloads) ==
    StackUuids(stk)
        \cup {payloads[i].x_request_id : i \in DOMAIN payloads}
        \cup (1..submitted)
        \cup UNION {StackUuids(deliveries[d].stack) :
                       d \in DOMAIN deliveries}

\* mutant: the first half goes on where the iterator of its caller stands
on_split_inherit(frame, stk) ==
    LET halves == split(frame.batch, UsedUuids(stk, chan_payloads))
    IN  Append([stk EXCEPT ![Len(stk)] =
                    [frame EXCEPT !.pc = "split_first",
                                  !.batch = halves.retained,
                                  !.batch2 = Some(halves.returned)]],
               [NewFrame(halves.retained) EXCEPT !.pos = frame.pos])

\* mutant: the returned half is delivered first
on_split_returned_first(frame, stk) ==
    LET halves == split(frame.batch, UsedUuids(stk, chan_payloads))
    IN  Append([stk EXCEPT ![Len(stk)] =
                    [frame EXCEPT !.pc = "split_first",
                                  !.batch = halves.retained,
                                  !.batch2 = Some(halves.returned)]],
               NewFrame(halves.returned))

\* the arm Split: batch.split(), then self.send(batch, endpoint).await
on_split(frame, stk) ==
    LET halves == split(frame.batch, UsedUuids(stk, chan_payloads))
    IN  Append([stk EXCEPT ![Len(stk)] =
                    [frame EXCEPT !.pc = "split_first",
                                  !.batch = halves.retained,
                                  !.batch2 = Some(halves.returned)]],
               NewFrame(halves.retained))

\* the iterator yields the next duration and the request is sent
on_request(frame) ==
    [frame EXCEPT !.pc = "inflight",
                  !.pos = @ + 1,
                  !.duration = backoff_sequence[frame.pos + 1],
                  !.attempts = @ + 1]

\* the match on the result of process_response
on_response(stk, state) ==
    CASE state.kind = "Done" -> on_done(stk)
      [] state.kind = "Split" -> on_split(stk[Len(stk)], stk)
      [] OTHER -> [stk EXCEPT ![Len(stk)] = on_retry(stk[Len(stk)], state)]

\* thread::sleep returns
on_wake_up(frame) == [frame EXCEPT !.pc = "start", !.sleep = 0]

\* Client::request: the request of one attempt, its header x-request-id
\* and its body
request(batch) ==
    [x_request_id |-> batch.uuid,
     body |-> [metrics |-> batch.metrics, attributes |-> batch.attributes]]

\* send_spans: the call of send on a batch of n records
send_spans(n, attributes) ==
    /\ client = "client"
    /\ stack = << >>
    /\ stack' = <<NewFrame(NewBatch(n, attributes))>>
    /\ response' = NoResponse
    /\ returned' = NoReturn
    /\ UNCHANGED <<config, client, endpoint, blocking>>

\* mutant: the next request is sent while the one before is in flight
Send_pipelined(payloads) ==
    /\ stack # << >>
    /\ Top.pc \in {"start", "inflight"}
    /\ Top.pos < Len(backoff_sequence)
    /\ stack' = SetTop(on_request(Top))
    /\ chan_payloads' = payloads
    /\ response' = NoResponse
    /\ returned' = NoReturn
    /\ UNCHANGED <<config, client, chan_responses, blocking>>

\* the iterator yields the next duration, the request is built and handed
\* to the HTTP client
Send(payloads) ==
    /\ stack # << >>
    /\ Top.pc = "start"
    /\ Top.pos < Len(backoff_sequence)
    /\ stack' = SetTop(on_request(Top))
    /\ chan_payloads' = payloads
    /\ response' = NoResponse
    /\ returned' = NoReturn
    /\ UNCHANGED <<config, client, chan_responses, blocking>>

\* the request goes to the ingest service
SendRequest == Send(chan_payloads)

\* the request goes to the endpoint of the integration tests, which records
\* its headers and body
accept_payload == Send(Append(chan_payloads, request(Top.batch)))

\* mutant: the iteration whose request cannot be built is skipped
RequestError_skipped ==
    /\ stack # << >>
    /\ Top.pc = "start"
    /\ Top.pos < Len(backoff_sequence)
    /\ stack' = SetTop([Top EXCEPT !.pos = @ + 1])
    /\ response' = NoResponse
    /\ returned' = Returns("request_error")
    /\ UNCHANGED <<config, client, endpoint, blocking>>

\* the iterator yields the next duration, self.request fails (marshall or
\* gzip): return
RequestError ==
    /\ stack # << >>
    /\ Top.pc = "start"
    /\ Top.pos < Len(backoff_sequence)
    /\ stack' = Return(stack)
    /\ response' = NoResponse
    /\ returned' = Returns("request_error")
    /\ UNCHANGED <<config, client, endpoint, blocking>>

\* the iterator is at its end: the loop and the call end
Exhausted ==
    /\ stack # << >>
    /\ Top.pc = "start"
    /\ Top.pos = Len(backoff_sequence)
    /\ stack' = Return(stack)
    /\ response' = NoResponse
    /\ returned' = Returns("exhausted")
    /\ UNCHANGED <<config, client, endpoint, blocking>>

\* mutant: a request that could not be sent is retried after the backoff
TransportError_retried ==
    /\ stack # << >>
    /\ Top.pc = "inflight"
    /\ stack' = SetTop(on_retry(Top, Retry(None)))
    /\ response' = NoResponse
    /\ returned' = Returns("transport_error")
    /\ UNCHANGED <<config, client, endpoint, blocking>>

\* self.client.request(request).await is Err: return
TransportError ==
    /\ stack # << >>
    /\ Top.pc = "inflight"
    /\ stack' = Return(stack)
    /\ response' = NoResponse
    /\ returned' = Returns("transport_error")
    /\ UNCHANGED <<config, client, endpoint, blocking>>

\* the response arrives: process_response and the match on its result.
\* A split is followed while fewer than depth calls are active.
Response(codes, replies, depth) ==
    /\ stack # << >>
    /\ Top.pc = "inflight"
    /\ \E status \in codes, headers \in replies :
         LET state == process_response(status, headers)
         IN  /\ state.kind = "Split" => Len(stack) < depth
             /\ response' = [status |-> status, headers |-> headers,
                             state |-> state, attempt |-> Top.attempts]
             /\ stack' = on_response(stack, state)
             /\ returned' = IF state.kind = "Done" THEN Returns("done")
                            ELSE NoReturn
    /\ UNCHANGED <<config, client, endpoint, blocking>>

\* thread::sleep(duration) is over: the next iteration
WakeUp ==
    /\ stack # << >>
    /\ Top.pc = "sleeping"
    /\ stack' = SetTop(on_wake_up(Top))
    /\ response' = NoResponse
    /\ returned' = NoReturn
    /\ UNCHANGED <<config, client, endpoint, blocking>>

(***************************************************************************)
(* ClientBuilder: the setters of the endpoint, build and build_blocking    *)
(***************************************************************************)
\* ClientBuilder::endpoint_traces
set_endpoint_traces(host, port) ==
    /\ client = "builder"
    /\ endpoint_traces' = Endpoint(host, port)
    /\ UNCHANGED <<retries_max, backoff_factor, backoff_sequence,
                   blocking_queue_max, use_tls, client, stack, endpoint,
                   blocking, response, returned>>

\* ClientBuilder::tls
tls(flag) ==
    /\ client = "builder"
    /\ use_tls' = flag
    /\ UNCHANGED <<retries_max, backoff_factor, backoff_sequence,
                   blocking_queue_max, endpoint_traces, client, stack,
                   endpoint, blocking, response, returned>>

\* Client::new: the backoff sequence of the client, or None for the error
\* of endpoint_traces.uri(use_tls)?
new ==
    IF uri(endpoint_traces, use_tls) = None THEN None
    ELSE Some(get_backoff_sequence(backoff_factor, retries_max))

\* ClientBuilder::build
build ==
    /\ client = "builder"
    /\ IF new = None
       THEN client' = "error" /\ UNCHANGED backoff_sequence
       ELSE client' = "client" /\ backoff_sequence' = new[1]
    /\ UNCHANGED <<retries_max, backoff_factor, blocking_queue_max,
                   endpoint_traces, use_tls, stack, endpoint, blocking,
                   response, returned>>

\* mutant: the worker thread is spawned before the client is built
build_blocking_spawn_first ==
    /\ client = "builder"
    /\ \E runtime \in BOOLEAN :
         IF ~runtime
         THEN client' = "error" /\ UNCHANGED <<backoff_sequence, worker>>
         ELSE /\ worker' = [NoWorker EXCEPT !.pc = "recv"]
              /\ IF new = None
                 THEN client' = "error" /\ UNCHANGED backoff_sequence
                 ELSE client' = "blocking" /\ backoff_sequence' = new[1]
    /\ UNCHANGED <<retries_max, backoff_factor, blocking_queue_max,
                   endpoint_traces, use_tls, stack, endpoint, channel,
                   submitted, deliveries, response, returned>>

\* ClientBuilder::build_blocking, blocking::Client::new: the channel and
\* the runtime are created (the runtime may fail to build), the client is
\* built, and only then the worker thread is spawned
build_blocking ==
    /\ client = "builder"
    /\ \E runtime \in BOOLEAN :
         IF ~runtime \/ new = None
         THEN client' = "error" /\ UNCHANGED <<backoff_sequence, worker>>
         ELSE /\ client' = "blocking"
              /\ backoff_sequence' = new[1]
              /\ worker' = [NoWorker EXCEPT !.pc = "recv"]
    /\ UNCHANGED <<retries_max, backoff_factor, blocking_queue_max,
                   endpoint_traces, use_tls, stack, endpoint, channel,
                   submitted, deliveries, response, returned>>

(***************************************************************************)
(* blocking::Client: send_spans, shutdown and the worker thread            *)
(***************************************************************************)
\* mutant: the channel is a rendezvous channel, the sender waits until the
\* worker is in rx.recv()
blocking_send_spans_rendezvous ==
    /\ client = "blocking"
    /\ submitted < MaxSubmits
    /\ worker.pc = "recv"
    /\ channel = << >>
    /\ submitted' = submitted + 1
    /\ channel' = <<[uuid |-> new_v4(1..submitted),
                     metrics |-> <<submitted + 1>>,
                     attributes |-> << >>]>>
    /\ UNCHANGED <<config, client, stack, endpoint, worker, deliveries,
                   response, returned>>

\* blocking::Client::send_spans of a batch with the given attributes: the
\* sender is locked and the batch is sent into the channel; the channel has
\* no capacity limit, and a send that fails because the worker has dropped
\* the receiver is ignored
channel_send(attributes) ==
    /\ client = "blocking"
    /\ submitted < MaxSubmits
    /\ submitted' = submitted + 1
    /\ channel' = IF worker.pc = "exited" THEN channel
                  ELSE Append(channel,
                              [uuid |-> new_v4(1..submitted),
                               metrics |-> <<submitted + 1>>,
                               attributes |-> attributes])
    /\ UNCHANGED <<config, client, stack, endpoint, worker, deliveries,
                   response, returned>>

\* blocking::Client::send_spans of a batch without attributes
blocking_send_spans == channel_send(<< >>)

\* shutdown: drop(self.channel)
shutdown ==
    /\ client = "blocking"
    /\ client' = "joining"
    /\ UNCHANGED <<config, stack, endpoint, blocking, response, returned>>

\* mutant: shutdown returns without joining the worker thread
join_detached ==
    /\ client = "joining"
    /\ client' = "shut_down"
    /\ UNCHANGED <<config, stack, endpoint, blocking, response, returned>>

\* shutdown: self.handle.join() returns once the worker thread has ended
join ==
    /\ client = "joining"
    /\ worker.pc = "exited"
    /\ client' = "shut_down"
    /\ UNCHANGED <<config, stack, endpoint, blocking, response, returned>>

\* mutant: the first batch is read and left in the channel
recv_peek ==
    /\ worker.pc = "recv"
    /\ channel # << >>
    /\ worker' = [worker EXCEPT !.pc = "try_recv",
                                !.batches = <<Head(channel)>>,
                                !.queued = channel]
    /\ UNCHANGED <<config, client, stack, endpoint, channel, submitted,
                   deliveries, response, returned>>

\* rx.recv() is Ok: the first batch of the iteration
recv ==
    /\ worker.pc = "recv"
    /\ channel # << >>
    /\ worker' = [worker EXCEPT !.pc = "try_recv",
                                !.batches = <<Head(channel)>>,
                                !.queued = channel]
    /\ channel' = Tail(channel)
    /\ UNCHANGED <<config, client, stack, endpoint, submitted, deliveries,
                   response, returned>>

\* mutant: the worker ends when it finds the channel empty
recv_err_empty ==
    /\ worker.pc = "recv"
    /\ channel = << >>
    /\ worker' = [worker EXCEPT !.pc = "exited"]
    /\ UNCHANGED <<config, client, stack, endpoint, channel, submitted,
                   deliveries, response, returned>>

\* mutant: rx.recv() is Err as soon as the sender is dropped
recv_err_disconnected ==
    /\ worker.pc = "recv"
    /\ client # "blocking"
    /\ worker' = [worker EXCEPT !.pc = "exited"]
    /\ UNCHANGED <<config, client, stack, endpoint, channel, submitted,
                   deliveries, response, returned>>

\* rx.recv() is Err, the channel is empty and its sender dropped: break
recv_err ==
    /\ worker.pc = "recv"
    /\ channel = << >>
    /\ client # "blocking"
    /\ worker' = [worker EXCEPT !.pc = "exited"]
    /\ UNCHANGED <<config, client, stack, endpoint, channel, submitted,
                   deliveries, response, returned>>

\* mutant: the batch is put in front of those already taken
try_recv_front ==
    /\ worker.pc = "try_recv"
    /\ channel # << >>
    /\ worker' = [worker EXCEPT !.batches = <<Head(channel)>> \o @]
    /\ channel' = Tail(channel)
    /\ UNCHANGED <<config, client, stack, endpoint, submitted, deliveries,
                   response, returned>>

\* rx.try_recv() is Ok: one more batch
try_recv ==
    /\ worker.pc = "try_recv"
    /\ channel # << >>
    /\ worker' = [worker EXCEPT !.batches = Append(@, Head(channel))]
    /\ channel' = Tail(channel)
    /\ UNCHANGED <<config, client, stack, endpoint, submitted, deliveries,
                   response, returned>>

\* mutant: the loop ends after the batches that were queued when
\* rx.recv() returned
try_recv_err_snapshot ==
    /\ worker.pc = "try_recv"
    /\ Len(worker.batches) >= Len(worker.queued)
    /\ worker' = [worker EXCEPT !.pc = "drain"]
    /\ UNCHANGED <<config, client, stack, endpoint, channel, submitted,
                   deliveries, response, returned>>

\* rx.try_recv() is Err: the channel is empty
try_recv_err ==
    /\ worker.pc = "try_recv"
    /\ channel = << >>
    /\ worker' = [worker EXCEPT !.pc = "drain"]
    /\ UNCHANGED <<config, client, stack, endpoint, channel, submitted,
                   deliveries, response, returned>>

\* mutant: the batches before the last queue_max are drained
drop_excess_oldest(batches, queue_max) ==
    IF Len(batches) > queue_max
    THEN [kept |-> SubSeq(batches, Len(batches) - queue_max + 1,
                          Len(batches)),
          dropped |-> SubSeq(batches, 1, Len(batches) - queue_max)]
    ELSE [kept |-> batches, dropped |-> << >>]

\* mutant: a queue_max of 0 is taken as no limit
drop_excess_unlimited(batches, queue_max) ==
    IF queue_max > 0 /\ Len(batches) > queue_max
    THEN [kept |-> SubSeq(batches, 1, queue_max),
          dropped |-> SubSeq(batches, queue_max + 1, Len(batches))]
    ELSE [kept |-> batches, dropped |-> << >>]

\* mutant: one batch more than queue_max is kept
drop_excess_inclusive(batches, queue_max) ==
    IF Len(batches) > queue_max + 1
    THEN [kept |-> SubSeq(batches, 1, queue_max + 1),
          dropped |-> SubSeq(batches, queue_max + 2, Len(batches))]
    ELSE [kept |-> batches, dropped |-> << >>]

\* if batches.len() > queue_max { batches.drain(queue_max..); }
drop_excess(batches, queue_max) ==
    IF Len(batches) > queue_max
    THEN [kept |-> SubSeq(batches, 1, queue_max),
          dropped |-> SubSeq(batches, queue_max + 1, Len(batches))]
    ELSE [kept |-> batches, dropped |-> << >>]

\* the future of client.send_spans(batch): the calls of send it is in,
\* and, as history, the number of requests it has sent and the status
\* codes of the responses it has handled
NewDelivery(batch) ==
    [batch |-> batch, stack |-> <<NewFrame(batch)>>, requests |-> 0,
     responses |-> << >>]

\* the batches beyond queue_max are dropped, the others are mapped to the
\* futures that runtime.block_on(future::join_all(..)) is called with
drain ==
    /\ worker.pc = "drain"
    /\ LET batches == drop_excess(worker.batches, blocking_queue_max)
       IN  /\ worker' = [pc |-> "block_on", batches |-> << >>,
                         drained |-> Len(worker.batches),
                         dropped |-> batches.dropped, queued |-> << >>]
           /\ deliveries' = [i \in 1..Len(batches.kept) |->
                               NewDelivery(batches.kept[i])]
    /\ UNCHANGED <<config, client, stack, endpoint, channel, submitted,
                   response, returned>>

\* the call of send that a delivery is in
Call(i) == deliveries[i].stack[Len(deliveries[i].stack)]

Pending(i) == deliveries[i].stack # << >>

\* the worker thread runs one future at a time: one that has not reached
\* the await of its request, or is in thread::sleep, keeps the thread
Runs(i) ==
    /\ worker.pc = "block_on"
    /\ i \in DOMAIN deliveries
    /\ Pending(i)
    /\ Call(i).pc \in {"start", "sleeping"}
    /\ \A j \in 1..(i - 1) : Pending(j) => Call(j).pc = "inflight"

\* mutant: a future in its wait has given the thread back
Idle_yielding ==
    \A j \in DOMAIN deliveries :
        Pending(j) => Call(j).pc \in {"inflight", "sleeping"}

\* no future runs: join_all polls the futures whose response has come
Idle ==
    \A j \in DOMAIN deliveries : Pending(j) => Call(j).pc = "inflight"

\* a delivery sends a request and awaits its response
delivery_request(i) ==
    /\ Runs(i)
    /\ Call(i).pc = "start"
    /\ Call(i).pos < Len(backoff_sequence)
    /\ deliveries' =
         [deliveries EXCEPT
            ![i].stack = [@ EXCEPT ![Len(@)] = on_request(Call(i))],
            ![i].requests = @ + 1]
    /\ UNCHANGED <<config, client, stack, endpoint, channel, submitted,
                   worker, response, returned>>

\* the iterator of a delivery is at its end: its call returns
delivery_exhausted(i) ==
    /\ Runs(i)
    /\ Call(i).pc = "start"
    /\ Call(i).pos = Len(backoff_sequence)
    /\ deliveries' = [deliveries EXCEPT ![i].stack = Return(@)]
    /\ UNCHANGED <<config, client, stack, endpoint, channel, submitted,
                   worker, response, returned>>

\* the response of a delivery has come and the worker polls its future.
\* A split is followed while fewer than depth calls are active.
delivery_response(i, codes, depth) ==
    /\ worker.pc = "block_on"
    /\ i \in DOMAIN deliveries
    /\ Pending(i)
    /\ Call(i).pc = "inflight"
    /\ Idle
    /\ \E status \in codes :
         /\ process_response(status, None) = Split
              => Len(deliveries[i].stack) < depth
         /\ deliveries' =
              [deliveries EXCEPT
                 ![i].stack = on_response(@, process_response(status, None)),
                 ![i].responses = Append(@, status)]
    /\ UNCHANGED <<config, client, stack, endpoint, channel, submitted,
                   worker, response, returned>>

\* thread::sleep of a delivery returns
delivery_wake_up(i) ==
    /\ Runs(i)
    /\ Call(i).pc = "sleeping"
    /\ deliveries' =
         [deliveries EXCEPT
            ![i].stack = [@ EXCEPT ![Len(@)] = on_wake_up(Call(i))]]
    /\ UNCHANGED <<config, client, stack, endpoint, channel, submitted,
                   worker, response, returned>>

\* mutant: block_on returns as soon as one future has completed
join_all_select ==
    /\ worker.pc = "block_on"
    /\ \E i \in DOMAIN deliveries : ~Pending(i)
    /\ worker' = [NoWorker EXCEPT !.pc = "recv"]
    /\ deliveries' = << >>
    /\ UNCHANGED <<config, client, stack, endpoint, channel, submitted,
                   response, returned>>

\* every future has completed: block_on returns, the next iteration
join_all ==
    /\ worker.pc = "block_on"
    /\ \A i \in DOMAIN deliveries : ~Pending(i)
    /\ worker' = [NoWorker EXCEPT !.pc = "recv"]
    /\ deliveries' = << >>
    /\ UNCHANGED <<config, client, stack, endpoint, channel, submitted,
                   response, returned>>

(***************************************************************************)
(* Spec: clients of every configuration within the bounds, a server that   *)
(* answers with one code of each row of the decision table.                *)
(***************************************************************************)
Init ==
    /\ retries_max \in 0..MaxRetries
    /\ backoff_factor \in {0, MaxFactor}
    /\ backoff_sequence = get_backoff_sequence(backoff_factor, retries_max)
    /\ NonBlockingClient
    /\ stack = << >>
    /\ chan_payloads = << >>
    /\ chan_responses = << >>
    /\ response = NoResponse
    /\ returned = NoReturn

Next ==
    \/ \E n \in 0..MaxRecords, a \in Attributes : send_spans(n, a)
    \/ SendRequest
    \/ RequestError
    \/ Exhausted
    \/ TransportError
    \/ Response(ServerCodes, ServerHeaders, MaxDepth)
    \/ WakeUp

Spec == Init /\ [][Next]_vars

(***************************************************************************)
(* SpecAllCodes: one client, a server that answers with every status code. *)
(***************************************************************************)
InitAllCodes ==
    /\ retries_max = AllRetries
    /\ backoff_factor = MaxFactor
    /\ backoff_sequence = get_backoff_sequence(backoff_factor, retries_max)
    /\ NonBlockingClient
    /\ stack = << >>
    /\ chan_payloads = << >>
    /\ chan_responses = << >>
    /\ response = NoResponse
    /\ returned = NoReturn

NextAllCodes ==
    \/ send_spans(MaxRecords, << >>)
    \/ SendRequest
    \/ RequestError
    \/ Exhausted
    \/ TransportError
    \/ Response(StatusCodes, Headers, AllDepth)
    \/ WakeUp

SpecAllCodes == InitAllCodes /\ [][NextAllCodes]_vars

(***************************************************************************)
(* SpecSplit: one client and the endpoint of the integration tests, which  *)
(* records every payload and answers the k-th request with the k-th of the *)
(* status codes that the test gives it; one batch is submitted, every      *)
(* request can be built and reaches the endpoint.                          *)
(***************************************************************************)
SplitCodes == {202, 413, 500}

RECURSIVE Replies(_)
\* the sequences of at most n status codes
Replies(n) ==
    IF n = 0 THEN {<< >>}
    ELSE LET shorter == Replies(n - 1)
         IN  shorter \cup {Append(r, c) : r \in shorter, c \in SplitCodes}

InitSplit ==
    /\ retries_max = AllRetries
    /\ backoff_factor = MaxFactor
    /\ backoff_sequence = get_backoff_sequence(backoff_factor, retries_max)
    /\ NonBlockingClient
    /\ stack = << >>
    /\ chan_payloads = << >>
    /\ chan_responses \in Replies(MaxReplies)
    /\ response = NoResponse
    /\ returned = NoReturn

\* the response that accept_payload took from chan_responses for the
\* request in flight
Reply ==
    /\ Len(chan_payloads) \in DOMAIN chan_responses
    /\ Response({chan_responses[Len(chan_payloads)]}, {None},
                Len(chan_responses) + 1)

\* chan_responses has no response left for the request in flight:
\* accept_payload fails and the client's request with it
NoReply ==
    /\ Len(chan_payloads) \notin DOMAIN chan_responses
    /\ TransportError

NextSplit ==
    \/ /\ chan_payloads = << >>
       /\ \E n \in 0..SplitRecords, a \in Attributes : send_spans(n, a)
    \/ accept_payload
    \/ Exhausted
    \/ Reply
    \/ NoReply
    \/ WakeUp

SpecSplit == InitSplit /\ [][NextSplit]_vars

(***************************************************************************)
(* SpecBlocking: blocking clients of every blocking_queue_max within the   *)
(* bounds, producers that submit batches and shut the client down, and the *)
(* endpoint of the integration tests replying 202 or 500.                  *)
(***************************************************************************)
BlockingCodes == {202, 500}

InitBlocking ==
    /\ retries_max = AllRetries
    /\ backoff_factor = MaxFactor
    /\ backoff_sequence = get_backoff_sequence(backoff_factor, retries_max)
    /\ blocking_queue_max \in 0..MaxQueue
    /\ endpoint_traces = Endpoint(<<"h", "o", "s", "t">>, None)
    /\ use_tls = FALSE
    /\ client = "blocking"
    /\ stack = << >>
    /\ chan_payloads = << >>
    /\ chan_responses = << >>
    /\ channel = << >>
    /\ submitted = 0
    /\ worker = [NoWorker EXCEPT !.pc = "recv"]
    /\ deliveries = << >>
    /\ response = NoResponse
    /\ returned = NoReturn

NextBlocking ==
    \/ blocking_send_spans
    \/ shutdown
    \/ join
    \/ recv
    \/ recv_err
    \/ try_recv
    \/ try_recv_err
    \/ drain
    \/ \E i \in DOMAIN deliveries : delivery_request(i)
    \/ \E i \in DOMAIN deliveries : delivery_exhausted(i)
    \/ \E i \in DOMAIN deliveries :
          delivery_response(i, BlockingCodes, MaxDepth)
    \/ \E i \in DOMAIN deliveries : delivery_wake_up(i)
    \/ join_all

SpecBlocking == InitBlocking /\ [][NextBlocking]_vars

(***************************************************************************)
(* SpecProducers: the blocking clients of SpecBlocking with several        *)
(* producer threads, each of which submits batches that carry its own      *)
(* attribute, in any interleaving with each other and with the worker.     *)
(***************************************************************************)
Producers == {<<"p1">>, <<"p2">>}

NextProducers ==
    \/ \E p \in Producers : channel_send(p)
    \/ shutdown
    \/ join
    \/ recv
    \/ recv_err
    \/ try_recv
    \/ try_recv_err
    \/ drain
    \/ \E i \in DOMAIN deliveries : delivery_request(i)
    \/ \E i \in DOMAIN deliveries : delivery_exhausted(i)
    \/ \E i \in DOMAIN deliveries :
          delivery_response(i, BlockingCodes, MaxDepth)
    \/ \E i \in DOMAIN deliveries : delivery_wake_up(i)
    \/ join_all

SpecProducers == InitBlocking /\ [][NextProducers]_vars

(***************************************************************************)
(* SpecExecutor: a non-blocking client whose caller awaits the futures of   *)
(* several send_spans calls joined in one task, which one thread of the    *)
(* caller's executor polls; the endpoint replies 202 or 500.               *)
(***************************************************************************)
MaxTasks == 2

\* the caller awaits the join of the futures of n calls of
\* Client::send_spans: the thread that polls the task is in the poll of
\* these futures until all of them have completed
join_send_spans(n) ==
    /\ client = "client"
    /\ worker.pc = "none"
    /\ deliveries = << >>
    /\ submitted = 0
    /\ submitted' = n
    /\ worker' = [NoWorker EXCEPT !.pc = "block_on"]
    /\ deliveries' = [i \in 1..n |->
                        NewDelivery([uuid |-> new_v4(1..(i - 1)),
                                     metrics |-> <<i>>,
                                     attributes |-> << >>])]
    /\ UNCHANGED <<config, client, stack, endpoint, channel, response,
                   returned>>

InitExecutor ==
    /\ retries_max \in 1..MaxRetries
    /\ backoff_factor \in {0, MaxFactor}
    /\ backoff_sequence = get_backoff_sequence(backoff_factor, retries_max)
    /\ NonBlockingClient
    /\ stack = << >>
    /\ chan_payloads = << >>
    /\ chan_responses = << >>
    /\ response = NoResponse
    /\ returned = NoReturn

NextExecutor ==
    \/ \E n \in 1..MaxTasks : join_send_spans(n)
    \/ \E i \in DOMAIN deliveries : delivery_request(i)
    \/ \E i \in DOMAIN deliveries : delivery_exhausted(i)
    \/ \E i \in DOMAIN deliveries :
          delivery_response(i, BlockingCodes, MaxDepth)
    \/ \E i \in DOMAIN deliveries : delivery_wake_up(i)

SpecExecutor == InitExecutor /\ [][NextExecutor]_vars

(***************************************************************************)
(* SpecBlockingSplit: the blocking clients of SpecBlocking with an         *)
(* endpoint that replies 202 or 413, so that deliveries split their batch  *)
(* and none is retried.                                                    *)
(***************************************************************************)
BlockingSplitCodes == {202, 413}

NextBlockingSplit ==
    \/ submitted < SplitSubmits /\ blocking_send_spans
    \/ shutdown
    \/ join
    \/ recv
    \/ recv_err
    \/ try_recv
    \/ try_recv_err
    \/ drain
    \/ \E i \in DOMAIN deliveries : delivery_request(i)
    \/ \E i \in DOMAIN deliveries :
          delivery_response(i, BlockingSplitCodes, MaxDepth)
    \/ join_all

SpecBlockingSplit == InitBlocking /\ [][NextBlockingSplit]_vars

(***************************************************************************)
(* SpecBuild: a builder with the defaults of ClientBuilder::new, whose     *)
(* endpoint and scheme are set and from which a client or a blocking       *)
(* client is built; the client sends a batch to a host that does not       *)
(* answer, the blocking client is given batches and shut down.             *)
(***************************************************************************)
Hosts ==
    { DEFAULT_HOST, <<"h", "o", "s", "t">>,
      <<"h", "o", "s", "t", ":", "8", "0">>, <<"?">>, << >>,
      <<":", "8", "0">>, <<"h", " ", "t">> }

Ports == {None, Some(80), Some(8080)}

InitBuild ==
    /\ retries_max = DEFAULT_RETRIES_MAX
    /\ backoff_factor = DEFAULT_BACKOFF_FACTOR
    /\ backoff_sequence = << >>
    /\ blocking_queue_max = DEFAULT_BLOCKING_QUEUE_MAX
    /\ endpoint_traces = Endpoint(DEFAULT_HOST, None)
    /\ use_tls = TRUE
    /\ client = "builder"
    /\ stack = << >>
    /\ chan_payloads = << >>
    /\ chan_responses = << >>
    /\ channel = << >>
    /\ submitted = 0
    /\ worker = NoWorker
    /\ deliveries = << >>
    /\ response = NoResponse
    /\ returned = NoReturn

NextBuild ==
    \/ \E host \in Hosts, port \in Ports : set_endpoint_traces(host, port)
    \/ \E flag \in BOOLEAN : tls(flag)
    \/ build
    \/ build_blocking
    \/ send_spans(MaxRecords, << >>)
    \/ SendRequest
    \/ TransportError
    \/ blocking_send_spans
    \/ shutdown
    \/ recv_err
    \/ join

SpecBuild == InitBuild /\ [][NextBuild]_vars

(***************************************************************************)
(* SpecBackoff: builders with a retries_max up to WideRetries and a        *)
(* backoff factor of seconds, minutes and hours, whose backoff sequence    *)
(* Client::new computes, in a build with and in a build without overflow   *)
(* checks.  In this specification backoff_sequence holds the seconds of    *)
(* each Duration as the 8 bytes of its u64.                                *)
(***************************************************************************)
Factors == {1, 5, 60, 3600, 86400}

InitBackoff ==
    /\ retries_max \in 0..WideRetries
    /\ backoff_factor \in Factors
    /\ backoff_sequence = << >>
    /\ blocking_queue_max = DEFAULT_BLOCKING_QUEUE_MAX
    /\ endpoint_traces = Endpoint(DEFAULT_HOST, None)
    /\ use_tls = TRUE
    /\ client = "builder"
    /\ stack = << >>
    /\ chan_payloads = << >>
    /\ chan_responses = << >>
    /\ channel = << >>
    /\ submitted = 0
    /\ worker = NoWorker
    /\ deliveries = << >>
    /\ response = NoResponse
    /\ returned = NoReturn

\* the call of get_backoff_sequence in Client::new
collect(overflow_checks) ==
    /\ client = "builder"
    /\ LET sequence == wide_backoff_sequence(backoff_factor, retries_max,
                                             overflow_checks)
       IN  IF sequence = None
           THEN client' = "panicked" /\ UNCHANGED backoff_sequence
           ELSE client' = "client" /\ backoff_sequence' = sequence[1]
    /\ UNCHANGED <<retries_max, backoff_factor, blocking_queue_max,
                   endpoint_traces, use_tls, stack, endpoint, blocking,
                   response, returned>>

NextBackoff == \E overflow_checks \in BOOLEAN : collect(overflow_checks)

SpecBackoff == InitBackoff /\ [][NextBackoff]_vars

(***************************************************************************)
(* Properties.                                                             *)
(***************************************************************************)
\* the wait after attempt k of a delivery when its response asks for a
\* retry without a delay of its own: nothing after the first attempt, then
\* the factor, doubling
WaitAfter(k) == IF k = 1 THEN 0 ELSE backoff_factor * 2^(k - 2)

\* the seconds that the Retry-After values denoting a number of seconds
\* stand for
HeaderSeconds ==
    (<<"0">> :> 0) @@ (<<"7">> :> 7) @@ (<<"1", "2">> :> 12)
    @@ (<<"+", "3">> :> 3)

Sleeping == stack # << >> /\ Top.pc = "sleeping"

\* C1: a batch that is never split and whose every response asks for a
\* retry is sent exactly retries_max + 1 times before it is dropped (here
\* for retries_max >= 1; C3 is the case retries_max = 0).
C1_SendsRetriesMaxPlusOne ==
    (returned.reason = "exhausted" /\ retries_max >= 1)
        => returned.attempts = retries_max + 1

C3_ZeroRetriesOneAttempt ==
    (retries_max = 0 /\ returned.reason # "none") => returned.attempts = 1

\* C4 as stated: no wait precedes the first attempt, and the wait between
\* attempt k and attempt k + 1 that follows a Retry(None) is
\* backoff_factor * 2^(k-1).
C4_WaitIsElementK ==
    /\ \A i \in 1..Len(stack) :
          stack[i].attempts = 0 => stack[i].pc = "start"
    /\ (Sleeping /\ response.state = Retry(None)
          /\ Top.pos < Len(backoff_sequence))
        => Top.sleep = backoff_factor * 2^(Top.attempts - 1)

\* C4 as amended: no wait precedes the first attempt, and the wait between
\* attempt k and attempt k + 1 that follows a Retry(None) is element k - 1
\* (counted from 0) of the backoff sequence: 0 for k = 1 and
\* backoff_factor * 2^(k-2) for k >= 2.
C4_WaitIsElementKMinusOne ==
    /\ \A i \in 1..Len(stack) :
          stack[i].attempts = 0 => stack[i].pc = "start"
    /\ (Sleeping /\ response.state = Retry(None)
          /\ Top.pos < Len(backoff_sequence))
        => Top.sleep = WaitAfter(Top.attempts)

C4_Witness ==
    /\ Sleeping
    /\ response.state = Retry(None)
    /\ Top.pos < Len(backoff_sequence)
    /\ Top.attempts = 3
    /\ backoff_factor = 2
    /\ Top.sleep = 4

\* C5: after a 429 with a Retry-After of d seconds the delivery waits
\* exactly d seconds, whatever the backoff sequence says for this attempt.
C5_ExplicitDelayReplaces ==
    (Sleeping /\ response.status = 429)
        => /\ response.headers # None
           /\ response.headers[1] \in DOMAIN HeaderSeconds
           /\ Top.sleep = HeaderSeconds[response.headers[1]]

C5_Witness ==
    /\ Sleeping
    /\ response.status = 429
    /\ response.headers = Some(<<"0">>)
    /\ Top.duration > 0
    /\ Top.sleep = 0

\* C6: every attempt, a 429 included, takes one element of the backoff
\* sequence, and after a Retry-After has replaced a wait the wait that
\* follows a later Retry(None) at attempt j is the one of attempt j without
\* any override.
C6_OverrideOnlyNextWait ==
    /\ \A i \in 1..Len(stack) : stack[i].pos = stack[i].attempts
    /\ (Sleeping /\ Top.overridden /\ response.state = Retry(None))
        => Top.sleep = WaitAfter(Top.attempts)

C6_Witness ==
    /\ Sleeping
    /\ Top.overridden
    /\ response.state = Retry(None)
    /\ Top.attempts = 3
    /\ Top.sleep = 2 * backoff_factor
    /\ backoff_factor > 0

\* C7: a response with a status in 200..299 is classified Done and ends the
\* send call: a batch whose first response is one has been sent once, and
\* what is left to run, if anything, is a call that has sent nothing yet
\* (the other half of a split).
C7_SuccessIsDone ==
    response.status \in 200..299
        => /\ response.state = Done
           /\ returned.reason = "done"
           /\ returned.attempts = response.attempt
           /\ (stack = << >> \/ Top.attempts = 0)

C7_Witness ==
    /\ response.status = 299
    /\ response.attempt = 1
    /\ returned.reason = "done"
    /\ returned.attempts = 1

\* C8: a response with status 400, 401, 403, 404, 405, 409, 410 or 411 is
\* classified Done and ends the send call, whatever budget is left.
C8_ClientErrorIsDropped ==
    response.status \in {400, 401, 403, 404, 405, 409, 410, 411}
        => /\ response.state = Done
           /\ returned.reason = "done"
           /\ returned.attempts = response.attempt
           /\ (stack = << >> \/ Top.attempts = 0)

C8_Witness ==
    /\ response.status = 411
    /\ response.attempt = 1
    /\ retries_max > 1
    /\ returned.reason = "done"
    /\ returned.attempts = 1

\* C9: a response with status 413 is classified Split, whatever its
\* Retry-After header.
C9_TooLargeIsSplit ==
    response.status = 413 => response.state = Split

C9_Witness ==
    /\ response.status = 413
    /\ response.headers = Some(<<"7">>)
    /\ response.state = Split
    /\ Top.pc = "start"

\* C10: a 429 whose Retry-After is a number n of seconds (that the 64-bit
\* parser can hold) is classified Retry(n); a 429 with any other
\* Retry-After, or none, is classified Done and ends the send call.
C10_RetryAfterOrDrop ==
    response.status = 429
        => IF response.headers # None
              /\ response.headers[1] \in DOMAIN HeaderSeconds
           THEN response.state
                  = Retry(Some(HeaderSeconds[response.headers[1]]))
           ELSE /\ response.state = Done
                /\ returned.reason = "done"
                /\ returned.attempts = response.attempt
                /\ (stack = << >> \/ Top.attempts = 0)

C10_Witness ==
    /\ response.status = 429
    /\ response.headers = Some(<<"s", "e", "v", "e", "n">>)
    /\ response.attempt = 1
    /\ returned.reason = "done"
    /\ returned.attempts = 1

\* C11: a response whose status is none of 2xx, 400, 401, 403, 404, 405,
\* 409, 410, 411, 413 and 429 (1xx, 3xx, the other 4xx, 5xx) is classified
\* Retry(None), whatever its headers: the delivery waits for the wait of
\* its backoff sequence.
C11_OtherCodesRetryNone ==
    (/\ response.status \in 100..599
     /\ response.status \notin 200..299
     /\ response.status
          \notin {400, 401, 403, 404, 405, 409, 410, 411, 413, 429})
        => /\ response.state = Retry(None)
           /\ Sleeping
           /\ Top.sleep = Top.duration

C11_Witness ==
    /\ response.status = 503
    /\ response.headers = Some(<<"7">>)
    /\ response.state = Retry(None)
    /\ response.attempt = 2
    /\ Top.pc = "sleeping"
    /\ Top.sleep = backoff_factor

Range(seq) == {seq[i] : i \in DOMAIN seq}

\* C13: splitting a batch of N records leaves the first floor(N/2) records
\* in the original, in order, and returns a new batch with the remaining
\* N - floor(N/2), in order: the halves are disjoint, their sizes add up
\* to N, the original holds the smaller or equal half and both halves
\* carry the attributes of the batch.
C13_SplitHalves ==
    [][response'.state = Split
         => LET batch == Top.batch
                N == Len(batch.metrics)
                original == stack'[Len(stack)].batch
                new_batch == stack'[Len(stack)].batch2[1]
            IN  /\ original.metrics = SubSeq(batch.metrics, 1, N \div 2)
                /\ new_batch.metrics
                     = SubSeq(batch.metrics, (N \div 2) + 1, N)
                /\ Range(original.metrics) \cap Range(new_batch.metrics)
                     = {}
                /\ Len(original.metrics) + Len(new_batch.metrics) = N
                /\ Len(original.metrics) <= Len(new_batch.metrics)
                /\ original.attributes = batch.attributes
                /\ new_batch.attributes = batch.attributes
                /\ Top'.batch = original]_vars

C13_Witness ==
    /\ Len(stack) = 2
    /\ response.state = Split
    /\ stack[1].pc = "split_first"
    /\ stack[1].batch.metrics = <<1>>
    /\ stack[1].batch2 # None
    /\ stack[1].batch2[1].metrics = <<2, 3>>
    /\ stack[1].batch.attributes = <<"host">>
    /\ stack[1].batch2[1].attributes = <<"host">>

\* C14: every request carries in x-request-id the uuid its batch has when
\* the request is built; a further attempt of a batch that was not split
\* carries the identifier of the attempt before; after a split the uuids
\* of the two halves differ from each other and from the uuid the batch
\* had before.
C14_RequestId ==
    [][/\ chan_payloads' # chan_payloads
          => LET sent == chan_payloads'[Len(chan_payloads')]
             IN  /\ sent.x_request_id = Top.batch.uuid
                 /\ Top'.batch.uuid = Top.batch.uuid
                 /\ Top.attempts >= 1
                      => sent.x_request_id
                           = chan_payloads[Len(chan_payloads)].x_request_id
       /\ response'.state = Split
          => LET original == stack'[Len(stack)].batch
                 new_batch == stack'[Len(stack)].batch2[1]
             IN  /\ original.uuid # new_batch.uuid
                 /\ original.uuid # Top.batch.uuid
                 /\ new_batch.uuid # Top.batch.uuid
                 /\ \A i \in DOMAIN chan_payloads :
                       chan_payloads[i].x_request_id
                         \notin {original.uuid, new_batch.uuid}]_vars

C14_Witness ==
    /\ Len(chan_payloads) = 4
    /\ chan_responses = <<500, 413, 202, 202>>
    /\ chan_payloads[2].x_request_id = chan_payloads[1].x_request_id
    /\ chan_payloads[3].x_request_id # chan_payloads[1].x_request_id
    /\ chan_payloads[4].x_request_id # chan_payloads[1].x_request_id
    /\ chan_payloads[4].x_request_id # chan_payloads[3].x_request_id
    /\ chan_payloads[3].body.metrics = <<1, 2>>
    /\ chan_payloads[4].body.metrics = <<3, 4>>

\* C15: when the test endpoint answers the first request of a batch of N
\* records with 413 and the next two requests with a 2xx, two further
\* requests are sent and no more: the first carries the first floor(N/2)
\* records, the second the remaining N - floor(N/2); the two record sets
\* are disjoint and together are the records of the batch.
C15_SplitScenario ==
    (/\ Len(chan_responses) >= 3
     /\ chan_responses[1] = 413
     /\ chan_responses[2] \in 200..299
     /\ chan_responses[3] \in 200..299
     /\ chan_payloads # << >>)
        => LET sent == Len(chan_payloads)
               batch == chan_payloads[1].body.metrics
               N == Len(batch)
               first == SubSeq(batch, 1, N \div 2)
               second == SubSeq(batch, (N \div 2) + 1, N)
           IN  /\ sent <= 3
               /\ Range(first) \cap Range(second) = {}
               /\ Range(first) \cup Range(second) = Range(batch)
               /\ sent >= 2 => chan_payloads[2].body.metrics = first
               /\ sent >= 3 => chan_payloads[3].body.metrics = second
               /\ (sent = 1 /\ response.status = 413)
                    => /\ Top.pc = "start"
                       /\ Top.attempts = 0
                       /\ Top.batch.metrics = first
               /\ (sent = 2 /\ response.status \in 200..299)
                    => /\ stack # << >>
                       /\ Top.pc = "start"
                       /\ Top.attempts = 0
                       /\ Top.batch.metrics = second
               /\ (sent = 3 /\ response.status \in 200..299)
                    => /\ stack = << >>
                       /\ returned.reason = "done"

C15_Witness ==
    /\ chan_responses = <<413, 202, 202>>
    /\ Len(chan_payloads) = 3
    /\ chan_payloads[1].body.metrics = <<1, 2, 3, 4>>
    /\ chan_payloads[2].body.metrics = <<1, 2>>
    /\ chan_payloads[3].body.metrics = <<3, 4>>
    /\ response.status = 202
    /\ stack = << >>

\* the smaller of two numbers
Min(a, b) == IF a <= b THEN a ELSE b

RECURSIVE Requests(_)
\* the requests sent by the first k deliveries of the worker's iteration
Requests(k) ==
    IF k = 0 THEN 0 ELSE deliveries[k].requests + Requests(k - 1)

\* C16: when the worker has drained n batches from the channel in one
\* iteration, it starts min(n, blocking_queue_max) deliveries and drops
\* the other n - min(n, blocking_queue_max) batches, for which no request
\* is sent; with blocking_queue_max = 1 and a 2xx for answer, one request
\* is sent however many batches were drained.
C16_DrainStartsAtMostQueueMax ==
    worker.pc = "block_on"
        => LET n == worker.drained
               started == Min(n, blocking_queue_max)
               kept == {deliveries[i].batch : i \in DOMAIN deliveries}
           IN  /\ n >= 1
               /\ Len(deliveries) = started
               /\ Cardinality(kept) = started
               /\ Len(worker.dropped) = n - started
               /\ Range(worker.dropped) \cap kept = {}
               /\ \A i \in DOMAIN deliveries :
                     /\ deliveries[i].requests <= retries_max
                     /\ deliveries[i].requests
                          \in {Len(deliveries[i].responses),
                               Len(deliveries[i].responses) + 1}
               /\ (/\ blocking_queue_max = 1
                    /\ deliveries[1].responses # << >>
                    /\ deliveries[1].responses[1] \in 200..299)
                     => /\ Requests(Len(deliveries)) = 1
                        /\ ~Pending(1)

C16_Witness ==
    /\ worker.pc = "block_on"
    /\ blocking_queue_max = 1
    /\ worker.drained = MaxSubmits
    /\ Len(worker.dropped) = MaxSubmits - 1
    /\ Len(deliveries) = 1
    /\ deliveries[1].responses = <<202>>
    /\ deliveries[1].requests = 1
    /\ channel = << >>

Terminal(i) ==
    /\ ~Pending(i)
    /\ \/ /\ deliveries[i].responses # << >>
          /\ process_response(
                 deliveries[i].responses[Len(deliveries[i].responses)],
                 None) = Done
       \/ deliveries[i].requests = Len(backoff_sequence)

\* C18: shutdown of the blocking client returns only when the worker
\* thread has exited and no delivery is in progress; the call of shutdown
\* itself leaves the worker and its deliveries as they are, and the worker
\* leaves the deliveries of an iteration only when each has ended with a
\* success, a drop or its retries exhausted.
C18_ShutdownWaitsForWorker ==
    /\ [](client = "shut_down"
            => /\ worker.pc = "exited"
               /\ deliveries = << >>
               /\ channel = << >>)
    /\ [][/\ client' # client => worker' = worker /\ deliveries' = deliveries
          /\ (deliveries # << >> /\ deliveries' = << >>)
               => \A i \in DOMAIN deliveries : Terminal(i)
          /\ \A i \in DOMAIN deliveries :
               (Pending(i) /\ i \in DOMAIN deliveries'
                /\ deliveries'[i].stack = << >>)
                   => \/ deliveries'[i].requests = Len(backoff_sequence)
                      \/ deliveries'[i].responses # deliveries[i].responses
         ]_vars

C18_Witness ==
    /\ client = "joining"
    /\ worker.pc = "block_on"
    /\ Len(deliveries) = 2
    /\ ~Pending(1)
    /\ deliveries[1].responses = <<500, 202>>
    /\ Pending(2)
    /\ Call(2).pc = "sleeping"
    /\ channel # << >>

\* C19: the batches held waiting for delivery never exceed the bound the
\* configuration gives, blocking_queue_max, however many batches are
\* submitted while the worker is blocked on the deliveries of an iteration
\* (stated for blocking_queue_max >= 1).
C19_QueueBounded ==
    (worker.pc = "block_on" /\ blocking_queue_max >= 1)
        => Len(channel) <= blocking_queue_max

C21_BackoffNeverOverflows ==
    /\ client # "panicked"
    /\ client = "client" =>
          /\ Len(backoff_sequence) = retries_max
          /\ retries_max <= 16 =>
                \A i \in 1..retries_max :
                    backoff_sequence[i]
                      = to_le_bytes(backoff_element(backoff_factor, i - 1),
                                    U64_BYTES)
          /\ \A i \in 2..retries_max :
                le(backoff_sequence[i - 1], backoff_sequence[i])

\* the calls of send that wait for the delivery of a half
Suspended(frame) == frame.pc \in {"split_first", "split_second"}

RECURSIVE CeilLog2(_)
\* the least d with 2^d >= n; 0 for n = 0
CeilLog2(n) == IF n <= 1 THEN 0 ELSE 1 + CeilLog2((n + 1) \div 2)

\* C23: whatever the server answers, the calls of send that are suspended
\* in a split of a batch of N records are never more than log2(N), rounded
\* up: a batch of 0 or 1 records is not split further.
C23_SplitDepthBounded ==
    chan_payloads # << >>
        => Len(stack) - 1
             <= CeilLog2(Len(chan_payloads[1].body.metrics))

\* C24: when the request of an attempt cannot be sent, the call of send
\* for that batch returns at once, with the attempts it has made, however
\* many elements of the backoff sequence remain: no call sleeps, the call
\* is no longer active, and the only call that can send next is a new one
\* for another batch, the second half of a split.
C24_TransportErrorTerminal ==
    [][returned'.reason = "transport_error"
         => /\ Top.pc = "inflight"
            /\ returned'.attempts = Top.attempts
            /\ Len(stack') <= Len(stack)
            /\ \A i \in DOMAIN stack' :
                  /\ stack'[i].pc # "sleeping"
                  /\ ~Suspended(stack'[i])
                       => /\ i = Len(stack')
                          /\ stack'[i] = NewFrame(stack'[i].batch)
                          /\ stack'[i].batch.uuid # Top.batch.uuid
                          /\ \E j \in 1..(Len(stack) - 1) :
                                /\ stack[j].pc = "split_first"
                                /\ stack[j].batch2 = Some(stack'[i].batch)]_vars

C24_Witness ==
    /\ returned.reason = "transport_error"
    /\ returned.attempts = 2
    /\ Len(backoff_sequence) = MaxRetries
    /\ stack = << >>

\* C25: when the request of an attempt cannot be built (marshall or gzip
\* fails), the call of send for that batch returns at once: no request is
\* sent for that attempt, the call has sent only what it had sent before,
\* however many elements of the backoff sequence remain, no call sleeps
\* or has a request in flight, and the only call that can send next is a
\* new one for another batch, the second half of a split.
C25_RequestErrorTerminal ==
    [][returned'.reason = "request_error"
         => /\ Top.pc = "start"
            /\ Top.attempts < Len(backoff_sequence)
            /\ returned'.attempts = Top.attempts
            /\ chan_payloads' = chan_payloads
            /\ Len(stack') <= Len(stack)
            /\ \A i \in DOMAIN stack' :
                  /\ stack'[i].pc \notin {"sleeping", "inflight"}
                  /\ ~Suspended(stack'[i])
                       => /\ i = Len(stack')
                          /\ stack'[i] = NewFrame(stack'[i].batch)
                          /\ stack'[i].batch.uuid # Top.batch.uuid
                          /\ \E j \in 1..(Len(stack) - 1) :
                                /\ stack[j].pc = "split_first"
                                /\ stack[j].batch2 = Some(stack'[i].batch)]_vars

C25_Witness ==
    /\ returned.reason = "request_error"
    /\ returned.attempts = 1
    /\ Len(backoff_sequence) = MaxRetries
    /\ stack = << >>

\* C26: the attempts of one batch are strictly sequential.  At most one
\* request is in flight, that of the innermost call of send; a call sends
\* only from the head of its loop and each request counts one attempt; a
\* request in flight ends only with its response, classified for that
\* attempt, or with a transport error; and a call that has sent a request
\* is back at the head of its loop only after the sleep that follows the
\* classification of the response.
C26_AttemptsSequential ==
    /\ [](\A i \in DOMAIN stack :
             stack[i].pc = "inflight" => i = Len(stack))
    /\ [][/\ (stack # << >> /\ Len(stack') = Len(stack)
                            /\ stack' # stack /\ Top'.pc = "inflight")
              => /\ Top.pc = "start"
                 /\ Top'.attempts = Top.attempts + 1
                 /\ Top'.batch = Top.batch
          /\ (stack # << >> /\ Top.pc = "inflight" /\ stack' # stack)
              => \/ /\ response'.status # 0
                    /\ response'.attempt = Top.attempts
                    /\ response'.state
                         = process_response(response'.status,
                                            response'.headers)
                 \/ returned'.reason = "transport_error"
          /\ (stack # << >> /\ Len(stack') = Len(stack)
                            /\ Top.attempts >= 1 /\ Top.pc # "start"
                            /\ Top'.pc = "start"
                            /\ Top'.attempts = Top.attempts)
              => Top.pc = "sleeping"
          /\ (stack # << >> /\ Len(stack') = Len(stack)
                            /\ Top'.pc = "sleeping" /\ Top.pc # "sleeping")
              => /\ Top.pc = "inflight"
                 /\ response'.state.kind = "Retry"]_vars

C26_Witness ==
    /\ Len(stack) = 1
    /\ Top.pc = "inflight"
    /\ Top.attempts = 3
    /\ Top.pos = 3

\* the batch that call i of send owns: its batch while it delivers it, the
\* second half while it waits for the delivery of the first, nothing
\* while it waits for the delivery of the second
Owned(i) ==
    IF Suspended(stack[i]) THEN stack[i].batch2 ELSE Some(stack[i].batch)

\* the records of the batches that the calls of send own
OwnedRecords ==
    UNION {Range(Owned(i)[1].metrics) :
             i \in {j \in DOMAIN stack : Owned(j) # None}}

\* the endpoint has answered request i
Answered(i) ==
    /\ i \in DOMAIN chan_responses
    /\ i < Len(chan_payloads) \/ stack = << >> \/ Top.pc # "inflight"

\* C27: after any responses and splits, no record is in the batches of two
\* calls of send; every record of the submitted batch is in the batch of
\* one call or was in a request of a call that has ended or goes on with
\* it, and the calls hold no other record; a record that the endpoint has
\* acknowledged with a 2xx is owned by no call and is in no later request.
C27_RecordsOwnedOnce ==
    LET original ==
          IF chan_payloads # << >>
          THEN Range(chan_payloads[1].body.metrics)
          ELSE IF stack # << >> THEN Range(stack[1].batch.metrics) ELSE {}
        sent == UNION {Range(chan_payloads[i].body.metrics) :
                          i \in DOMAIN chan_payloads}
    IN  /\ \A i, j \in DOMAIN stack :
              (i # j /\ Owned(i) # None /\ Owned(j) # None)
                => Range(Owned(i)[1].metrics)
                     \cap Range(Owned(j)[1].metrics) = {}
        /\ OwnedRecords \subseteq original
        /\ sent \subseteq original
        /\ stack # << >> => original \subseteq OwnedRecords \cup sent
        /\ \A i \in DOMAIN chan_payloads :
              (Answered(i) /\ chan_responses[i] \in 200..299)
                => /\ Range(chan_payloads[i].body.metrics)
                        \cap OwnedRecords = {}
                   /\ \A j \in DOMAIN chan_payloads :
                         j > i => Range(chan_payloads[i].body.metrics)
                                    \cap Range(chan_payloads[j].body.metrics)
                                    = {}

C27_Witness ==
    /\ chan_responses = <<413, 202, 413, 202>>
    /\ Len(chan_payloads) = 4
    /\ chan_payloads[2].body.metrics = <<1, 2>>
    /\ chan_payloads[4].body.metrics = <<3>>
    /\ response.status = 202
    /\ Len(stack) = 3
    /\ Top.pc = "start"
    /\ Top.batch.metrics = <<4>>
    /\ OwnedRecords = {4}

\* a is an initial part of b
IsPrefix(a, b) == Len(a) <= Len(b) /\ a = SubSeq(b, 1, Len(a))

\* C28 as stated: the batches of a drain cycle are exactly those that were
\* queued when the worker began to drain, at the return of rx.recv().
C28_DrainIsSnapshot ==
    worker.pc = "drain" => worker.batches = worker.queued

\* C28, amended: the batches of a drain cycle are those that the worker
\* takes from the channel until rx.try_recv() finds it empty, in the order
\* of their submission: those queued when rx.recv() returned and those
\* submitted while the worker emptied the channel, which count towards the
\* overflow.  A batch submitted after that stays in the channel, is
\* neither delivered nor dropped in this cycle and waits for the next.
C28_DrainUntilEmpty ==
    /\ [](worker.pc \in {"try_recv", "drain"}
            => /\ worker.batches # << >>
               /\ IsPrefix(worker.queued,
                           IF worker.pc = "drain" THEN worker.batches
                           ELSE worker.batches \o channel)
               /\ \A i \in 1..(Len(worker.batches) - 1) :
                     worker.batches[i].uuid < worker.batches[i + 1].uuid)
    /\ [][/\ (worker.pc = "try_recv" /\ worker'.pc = "drain")
              => /\ channel = << >>
                 /\ worker'.batches = worker.batches
          /\ (worker.pc = "try_recv" /\ worker'.pc = "try_recv"
                                     /\ worker' # worker)
              => /\ channel # << >>
                 /\ worker'.batches = Append(worker.batches, Head(channel))
                 /\ channel' = Tail(channel)
          /\ worker.pc \in {"drain", "block_on"}
              => IsPrefix(channel, channel')
          /\ (worker.pc = "drain" /\ worker'.pc = "block_on")
              => /\ worker'.drained = Len(worker.batches)
                 /\ [i \in DOMAIN deliveries' |-> deliveries'[i].batch]
                        \o worker'.dropped = worker.batches
                 /\ Len(deliveries')
                      = Min(Len(worker.batches), blocking_queue_max)]_vars

C28_Witness ==
    /\ worker.pc = "drain"
    /\ Len(worker.queued) = 1
    /\ Len(worker.batches) = 2
    /\ Len(channel) = 1
    /\ blocking_queue_max = 1

\* C29: the worker goes back to rx.recv(), and takes a batch from the
\* channel, only when every delivery of the cycle has ended, the calls of
\* send for the halves of a split included: while the worker waits for a
\* batch, empties the channel or drains, no delivery exists; block_on
\* returns only when no delivery has a call of send left, and it returns to
\* rx.recv(); and while the worker is blocked on the deliveries no batch
\* leaves the channel, those submitted meanwhile are added to it.
C29_CycleCompletesBeforeNextRecv ==
    /\ [](/\ worker.pc \in {"recv", "try_recv", "drain", "exited"}
               => deliveries = << >>
          /\ worker.pc = "block_on" => worker.batches = << >>)
    /\ [][/\ (worker.pc = "block_on" /\ worker'.pc # "block_on")
              => /\ \A i \in DOMAIN deliveries :
                       deliveries[i].stack = << >>
                 /\ worker'.pc = "recv"
                 /\ deliveries' = << >>
                 /\ channel' = channel
          /\ worker.pc = "block_on"
              => /\ IsPrefix(channel, channel')
                 /\ Len(deliveries') \in {0, Len(deliveries)}
          /\ channel' # channel /\ ~IsPrefix(channel, channel')
              => /\ worker.pc \in {"recv", "try_recv"}
                 /\ deliveries = << >>
                 /\ channel' = Tail(channel)]_vars

C29_Witness ==
    /\ worker.pc = "block_on"
    /\ channel # << >>
    /\ Len(deliveries) = 1
    /\ Pending(1)
    /\ Len(deliveries[1].stack) = 2
    /\ deliveries[1].stack[1].pc = "split_second"
    /\ deliveries[1].responses = <<413, 202>>

\* the steps of the loop of the worker thread: waiting for the first batch
\* (recv), emptying the channel (try_recv), dropping the excess (drain),
\* delivering (block_on), and the break out of the loop
WorkerSteps ==
    { <<"recv", "try_recv">>, <<"try_recv", "drain">>,
      <<"drain", "block_on">>, <<"block_on", "recv">>,
      <<"recv", "exited">> }

\* C30: the worker changes its phase only along recv, try_recv, drain,
\* block_on, recv; it ends only from recv, when the channel is empty and
\* its sender has been dropped by shutdown; it never ends while the client
\* has not been shut down, and once it has ended it does nothing more.
C30_WorkerPhases ==
    /\ [](/\ client = "blocking" => worker.pc # "exited"
          /\ worker.pc = "exited" => channel = << >> /\ deliveries = << >>
          /\ worker.pc \in {"recv", "try_recv", "drain", "block_on",
                             "exited"})
    /\ [][/\ worker'.pc # worker.pc
              => <<worker.pc, worker'.pc>> \in WorkerSteps
          /\ (worker'.pc = "exited" /\ worker.pc # "exited")
              => /\ worker.pc = "recv"
                 /\ channel = << >>
                 /\ client \in {"joining", "shut_down"}
          /\ worker.pc = "exited"
              => /\ worker' = worker
                 /\ deliveries' = deliveries
                 /\ channel' = channel]_vars

C30_Witness ==
    /\ worker.pc = "exited"
    /\ client = "joining"
    /\ submitted = MaxSubmits
    /\ channel = << >>

\* C31 as stated: when a drain cycle holds more than blocking_queue_max
\* batches, the dropped ones are the oldest: the worker took every dropped
\* batch from the channel before every batch it delivers.
C31_OldestDropped ==
    [][(worker.pc = "drain" /\ worker'.pc = "block_on"
                           /\ Len(worker.batches) > blocking_queue_max)
         => \A d \in DOMAIN worker.batches :
               worker.batches[d] \in Range(worker'.dropped)
                 => \A k \in DOMAIN worker.batches :
                       (\E i \in DOMAIN deliveries' :
                           deliveries'[i].batch = worker.batches[k])
                         => d < k]_vars

\* C31, amended: when a drain cycle holds more than blocking_queue_max
\* batches, the dropped ones are the newest, those the worker took last
\* from the channel, and the oldest blocking_queue_max are delivered: with
\* a blocking_queue_max of 1 or more the batch that rx.recv() returned is
\* always delivered and the batch taken last is always dropped.
C31_NewestDropped ==
    [][(worker.pc = "drain" /\ worker'.pc = "block_on"
                           /\ Len(worker.batches) > blocking_queue_max)
         => LET n == Len(worker.batches)
            IN  /\ worker'.dropped
                     = SubSeq(worker.batches, blocking_queue_max + 1, n)
                /\ worker.batches[n] \in Range(worker'.dropped)
                /\ \A i \in DOMAIN deliveries' :
                      /\ deliveries'[i] = NewDelivery(worker.batches[i])
                      /\ worker.batches[i] \notin Range(worker'.dropped)
                /\ blocking_queue_max >= 1
                     => deliveries'[1].batch = worker.batches[1]]_vars

C31_Witness ==
    /\ worker.pc = "block_on"
    /\ blocking_queue_max = 1
    /\ Len(deliveries) = 1
    /\ deliveries[1].batch.metrics = <<1>>
    /\ deliveries[1].requests = 0
    /\ Len(worker.dropped) = 2
    /\ worker.dropped[1].metrics = <<2>>
    /\ worker.dropped[2].metrics = <<3>>

\* C32: in a drain cycle that holds more than blocking_queue_max batches,
\* the batches delivered are the first blocking_queue_max in the order of
\* submission and every dropped batch was submitted after every delivered
\* one; the delivered and the dropped batches are each in that order.
C32_FirstRetained ==
    (worker.pc = "block_on" /\ worker.drained > blocking_queue_max)
        => LET cycle == [i \in DOMAIN deliveries |->
                            deliveries[i].batch.uuid]
                          \o [d \in DOMAIN worker.dropped |->
                                worker.dropped[d].uuid]
           IN  /\ Len(deliveries) = blocking_queue_max
               /\ Len(worker.dropped)
                    = worker.drained - blocking_queue_max
               /\ \A k \in 1..(Len(cycle) - 1) :
                     cycle[k + 1] = cycle[k] + 1
               /\ \A i \in DOMAIN deliveries,
                       d \in DOMAIN worker.dropped :
                     deliveries[i].batch.uuid < worker.dropped[d].uuid

C32_Witness ==
    /\ worker.pc = "block_on"
    /\ blocking_queue_max = 2
    /\ worker.drained = 3
    /\ deliveries[1].batch.uuid = 1
    /\ deliveries[2].batch.uuid = 2
    /\ Len(worker.dropped) = 1
    /\ worker.dropped[1].uuid = 3

\* the batches the worker has taken from the channel in its current
\* iteration, in the order it took them
Cycle ==
    IF worker.pc = "block_on"
    THEN [i \in DOMAIN deliveries |-> deliveries[i].batch] \o worker.dropped
    ELSE worker.batches

\* C33: with several producers, in any interleaving with the worker, each
\* submission adds its batch once at the end of the channel and each
\* receive takes the batch at the head of the channel out of it, once; the
\* batches the worker holds in its iteration followed by those in the
\* channel are the last submissions, each once, in the order of
\* submission, so none is lost or duplicated and those of one producer
\* are drained in the order that producer submitted them.
C33_ReceivedExactlyOnce ==
    /\ [](LET held == Cycle \o channel
          IN  /\ \A k \in DOMAIN held :
                    held[k].uuid = submitted - Len(held) + k
              /\ \A k, l \in DOMAIN held :
                    (k < l /\ held[k].attributes = held[l].attributes)
                      => held[k].metrics[1] < held[l].metrics[1])
    /\ [][/\ submitted' # submitted
              => /\ submitted' = submitted + 1
                 /\ Len(channel') = Len(channel) + 1
                 /\ SubSeq(channel', 1, Len(channel)) = channel
                 /\ channel'[Len(channel')].uuid = submitted'
                 /\ channel'[Len(channel')].attributes \in Producers
                 /\ worker' = worker
          /\ (channel' # channel /\ submitted' = submitted)
              => /\ worker.pc \in {"recv", "try_recv"}
                 /\ channel' = Tail(channel)
                 /\ worker'.batches = Append(worker.batches, Head(channel))
          /\ worker'.batches # worker.batches
              => \/ /\ channel # << >>
                    /\ channel' = Tail(channel)
                    /\ worker'.batches
                         = Append(worker.batches, Head(channel))
                 \/ /\ worker.pc = "drain"
                    /\ worker'.batches = << >>
                    /\ Cycle' = worker.batches]_vars

C33_Witness ==
    /\ worker.pc = "drain"
    /\ Len(worker.batches) = 3
    /\ worker.batches[1].attributes = <<"p1">>
    /\ worker.batches[2].attributes = <<"p2">>
    /\ worker.batches[3].attributes = <<"p1">>
    /\ worker.batches[1].uuid < worker.batches[3].uuid
    /\ Len(worker.queued) = 1

\* C34: shutdown discards nothing. Once it is called nothing is submitted
\* and the channel changes only by the worker receiving its head; a worker
\* waiting for or draining batches can receive whatever is queued; an
\* iteration ends only with every delivery of it terminal; when shutdown
\* has returned the worker has ended, the channel is empty and no delivery
\* is left; and once the worker drains the channel after the call it never
\* again finds a batch to begin an iteration with, so at most one
\* iteration follows the one in progress at the call.
C34_ShutdownDrainsQueue ==
    /\ [](client = "shut_down"
            => /\ worker.pc = "exited"
               /\ channel = << >>
               /\ deliveries = << >>
               /\ Cycle = << >>)
    /\ []((client = "joining" /\ channel # << >>
                              /\ worker.pc \in {"recv", "try_recv"})
            => ENABLED (recv \/ try_recv))
    /\ [][/\ client # "blocking"
              => /\ submitted' = submitted
                 /\ channel' # channel
                      => /\ channel' = Tail(channel)
                         /\ worker'.batches
                              = Append(worker.batches, Head(channel))
          /\ (worker.pc = "block_on" /\ worker'.pc = "recv")
              => \A i \in DOMAIN deliveries : Terminal(i)
          /\ (worker.pc = "drain" /\ worker'.pc = "block_on")
              => Cycle' = worker.batches]_vars
    /\ []((client # "blocking" /\ worker.pc = "try_recv")
            => [](worker.pc = "recv" => channel = << >>))

C34_Witness ==
    /\ client = "joining"
    /\ worker.pc = "block_on"
    /\ deliveries # << >>
    /\ \E i \in DOMAIN deliveries : Pending(i)
    /\ Len(channel) = 2

\* C35 (as stated): in non-blocking mode, while one delivery is in its wait
\* between attempts, another delivery polled by the same thread whose
\* response has come can go on: its response is processed and its next
\* request sent.
C35_WaitYields ==
    \A i, j \in DOMAIN deliveries :
        (/\ client = "client"
         /\ i # j
         /\ Pending(i) /\ Call(i).pc = "sleeping" /\ Call(i).sleep > 0
         /\ Pending(j) /\ Call(j).pc = "inflight")
          => ENABLED delivery_response(j, BlockingCodes, MaxDepth)

\* C36: in the blocking client, while a delivery of an iteration is in its
\* wait, that of the back-off sequence or that of Retry-After, no other
\* delivery of the iteration sends a request or processes a response: no
\* step changes another delivery, and no two deliveries wait at once.
C36_WaitBlocksWorker ==
    /\ [](\A i, j \in DOMAIN deliveries :
            (Pending(i) /\ Call(i).pc = "sleeping"
              /\ Pending(j) /\ Call(j).pc = "sleeping") => i = j)
    /\ [][\A i \in DOMAIN deliveries :
            (worker.pc = "block_on" /\ Pending(i)
                                   /\ Call(i).pc = "sleeping")
              => /\ DOMAIN deliveries' = DOMAIN deliveries
                 /\ \A j \in DOMAIN deliveries \ {i} :
                       deliveries'[j] = deliveries[j]
                 /\ ~ ENABLED delivery_response(i, BlockingCodes, MaxDepth)
                 /\ \A j \in DOMAIN deliveries \ {i} :
                       /\ ~ ENABLED delivery_request(j)
                       /\ ~ ENABLED delivery_response(j, BlockingCodes,
                                                      MaxDepth)]_vars

C36_Witness ==
    /\ client = "blocking"
    /\ worker.pc = "block_on"
    /\ Len(deliveries) = 2
    /\ Pending(1) /\ Call(1).pc = "sleeping" /\ Call(1).sleep > 0
    /\ Pending(2) /\ Call(2).pc = "inflight"
    /\ deliveries[2].requests = 1

\* the identifiers of the requests the endpoint has received
RequestIds == {chan_payloads[k].x_request_id : k \in DOMAIN chan_payloads}

\* C37: the halves of a split are delivered one after the other.  While a
\* call waits for the delivery of the retained half, the call above it
\* delivers that half, no request has been sent for the returned half and
\* no call delivers it; only the topmost call is active.  The call for the
\* returned half begins, with no request sent yet, in the step in which
\* the delivery of the retained half ends: its topmost call returns (Done,
\* retries exhausted, or a failed request) and every call between, nested
\* splits of the retained half, has delivered both its halves.
C37_HalvesSequential ==
    /\ [](\A i \in DOMAIN stack :
            /\ Suspended(stack[i]) <=> i < Len(stack)
            /\ stack[i].pc = "split_first"
                 => /\ stack[i].batch2 # None
                    /\ stack[i].batch2[1].uuid \notin RequestIds
                    /\ \A k \in DOMAIN stack :
                          stack[k].batch.uuid # stack[i].batch2[1].uuid
                    /\ \A k \in (i + 1)..Len(stack) :
                          /\ Range(stack[k].batch.metrics)
                               \subseteq Range(stack[i].batch.metrics)
                          /\ Range(stack[k].batch.metrics)
                               \cap Range(stack[i].batch2[1].metrics) = {})
    /\ [][\A i \in DOMAIN stack :
            (stack[i].pc = "split_first" /\ i \in DOMAIN stack'
                                        /\ stack'[i].pc # "split_first")
              => /\ stack'[i].pc = "split_second"
                 /\ Len(stack') = i + 1
                 /\ Top' = NewFrame(stack[i].batch2[1])
                 /\ \A k \in (i + 1)..(Len(stack) - 1) :
                       stack[k].pc = "split_second"
                 /\ returned'.reason
                      \in {"done", "exhausted", "transport_error"}
                 /\ chan_payloads' = chan_payloads
                 /\ Top.batch.uuid \in RequestIds
                 /\ Top'.batch.uuid \notin RequestIds']_vars

C37_Witness ==
    /\ Len(stack) = 2
    /\ stack[1].pc = "split_second"
    /\ Top.pc = "inflight"
    /\ Top.attempts = 2
    /\ Top.batch.metrics = <<2>>
    /\ chan_responses = <<413, 202, 500, 500>>
    /\ Len(chan_payloads) = 4

\* the record logged for the batch in the step in which its delivery
\* returned, if any
ReturnLog ==
    IF returned.reason = "done"
    THEN Some(log_process_response(response.status, response.headers))
    ELSE log_send(returned.reason)

\* C38 (as stated): a delivery that returns because its retries are
\* exhausted logs that the batch is dropped, as does one that returns on
\* a status that is not retried or on a request that could not be created
\* or sent.
C38_ExhaustionLogged ==
    (\/ returned.reason \in {"request_error", "transport_error"}
     \/ /\ returned.reason = "exhausted"
        /\ returned.attempts >= 1
     \/ /\ returned.reason = "done"
        /\ response.status \notin 200..299)
      => /\ ReturnLog # None
         /\ ReturnLog[1].says = "dropping"

\* C39: with blocking_queue_max = 0 every iteration of the worker drops all
\* the batches it has received: no delivery is ever created and no request
\* sent; the iteration ends at once and the worker goes back to wait, it
\* ends only after shutdown, and send_spans goes on being accepted.
C39_ZeroQueueDropsAll ==
    /\ [](blocking_queue_max = 0
            => /\ deliveries = << >>
               /\ ~ ENABLED (\E i \in 1..MaxSubmits : delivery_request(i))
               /\ worker.pc = "block_on"
                    => /\ worker.drained >= 1
                       /\ Len(worker.dropped) = worker.drained
                       /\ ENABLED join_all
               /\ client = "blocking"
                    => /\ worker.pc # "exited"
                       /\ submitted < MaxSubmits
                            => ENABLED blocking_send_spans)
    /\ [][(blocking_queue_max = 0 /\ worker.pc = "drain"
                                  /\ worker'.pc # "drain")
            => /\ worker'.pc = "block_on"
               /\ worker'.dropped = worker.batches
               /\ deliveries' = << >>]_vars

C39_Witness ==
    /\ blocking_queue_max = 0
    /\ client = "blocking"
    /\ worker.pc = "block_on"
    /\ Len(worker.dropped) = 2
    /\ worker.dropped[1].uuid = 2
    /\ submitted = 3
    /\ Len(channel) = 0

\* the responses of delivery i that were classified as a retry
RetryResponses(i) ==
    {k \in DOMAIN deliveries[i].responses :
        process_response(deliveries[i].responses[k], None).kind = "Retry"}

\* C40: a delivery waits after every response classified as a retry, the
\* response to its last attempt included.  A step that handles such a
\* response puts the delivery in its wait, for the delay of the attempt,
\* and nothing else does; a delivery is ready for its next iteration only
\* when a wait is over, so that it has then waited once for each retry
\* response, and it returns for exhaustion only from there.  While the
\* wait after the last attempt lasts the delivery sends nothing and has
\* not returned, and the iteration of the blocking worker cannot end.
C40_WaitAfterEveryRetry ==
    /\ [](\A i \in DOMAIN deliveries :
            Pending(i)
              => /\ Call(i).pc = "sleeping"
                      => /\ Len(deliveries[i].responses) \in RetryResponses(i)
                         /\ Call(i).attempts = Len(deliveries[i].responses)
                         /\ Call(i).sleep
                              = backoff_sequence[Call(i).attempts]
                         /\ ~ ENABLED delivery_request(i)
                         /\ ~ ENABLED delivery_exhausted(i)
                         /\ ~ ENABLED join_all
                 /\ Call(i).pc = "start"
                      => /\ Call(i).attempts = Len(deliveries[i].responses)
                         /\ RetryResponses(i) = 1..Call(i).attempts)
    /\ [][\A i \in DOMAIN deliveries :
            (worker'.pc = "block_on" /\ deliveries'[i] # deliveries[i])
              => /\ (/\ Len(deliveries'[i].responses)
                          > Len(deliveries[i].responses)
                     /\ Len(deliveries'[i].responses) \in RetryResponses(i)')
                      <=> (Pending(i)' /\ Call(i)'.pc = "sleeping")
                 /\ (Pending(i)' /\ Call(i)'.pc = "start")
                      => Call(i).pc = "sleeping"
                 /\ (~ Pending(i)' /\ deliveries'[i].responses
                                        = deliveries[i].responses)
                      => /\ Call(i).pc = "start"
                         /\ RetryResponses(i)
                              = DOMAIN deliveries[i].responses
                         /\ Call(i).attempts = Len(backoff_sequence)
                         /\ Len(deliveries[i].responses)
                              = Len(backoff_sequence)]_vars

C40_Witness ==
    /\ client = "blocking"
    /\ worker.pc = "block_on"
    /\ Len(deliveries) = 2
    /\ ~ Pending(2)
    /\ Pending(1)
    /\ Call(1).pc = "sleeping"
    /\ Call(1).attempts = Len(backoff_sequence)
    /\ Call(1).sleep > 0
    /\ deliveries[1].responses = <<500, 500>>

=============================================================================
